---- MODULE Spec2Model ----
(***************************************************************************)
(* Storage layer of golang-simple-notes: the NoteStorage contract and its  *)
(* three adapters (InMemoryStorage, CouchDBStorage, MongoDBStorage).       *)
(*                                                                         *)
(* Identifiers are sequences of characters, so that strings.HasPrefix is   *)
(* computed and not assumed.  Timestamps are instants counted in an        *)
(* abstract unit finer than a millisecond; 0 is Go's zero time.            *)
(* A CouchDB revision token is modelled by its generation number, 0 being  *)
(* the empty string (no "_rev" member in the JSON document).               *)
(***************************************************************************)
EXTENDS Integers, Sequences, FiniteSets, TLC

\* ------------------------------------------------------------------ bounds
MaxTime == 1
MaxRev == 3
TicksPerMs == 2

\* ------------------------------------------------------------ input values
NoteIdA == <<"n", "1">>
NoteIdB == <<"n", "2">>
DesignId == <<"_", "d", "e", "s", "i", "g", "n", "/", "x">>
Ids == {NoteIdA, NoteIdB, DesignId}
Titles == {"T", "T2"}
Contents == {"C", "C2"}
Times == 0..MaxTime
Backends == {"memory", "couchdb", "mongodb"}

\* model.Note
Note(id, rev, title, content, created, updated) ==
    [ID |-> id, Rev |-> rev, Title |-> title, Content |-> content,
     CreatedAt |-> created, UpdatedAt |-> updated]

\* the value of a *model.Note that is nil
NilNote == Note(<<>>, 0, "", "", 0, 0)

\* -------------------------------------------------------------- Go helpers
\* strings.HasPrefix
HasPrefix(s, p) == Len(s) >= Len(p) /\ SubSeq(s, 1, Len(p)) = p

\* m[k] = v on a Go map
MapPut(m, k, v) == [x \in (DOMAIN m) \cup {k} |-> IF x = k THEN v ELSE m[x]]

\* delete(m, k) on a Go map
MapDelete(m, k) == [x \in (DOMAIN m) \ {k} |-> m[x]]

EmptyMap == [x \in {} |-> NilNote]

\* ------------------------------------------------------------------ errors
\* An error is the chain of its messages, outermost first: fmt.Errorf with
\* %w puts a message in front of the chain; nil is the empty chain.
ErrNil == <<>>

\* storage.ErrNoteNotFound
ErrNoteNotFound == <<"note not found">>

\* fmt.Errorf("<msg>: %w", err)
Wrap(msg, err) == <<msg>> \o err

\* errors reported by the CouchDB client (kivik) and by the MongoDB driver
KivikMissing == <<"Not Found: missing">>
KivikDeleted == <<"Not Found: deleted">>
KivikConflict == <<"Conflict: Document update conflict.">>
KivikDocIDRequired == <<"kivik: docID required">>
KivikReservedId == <<"Bad Request: Only reserved document ids may start with underscore.">>
MongoDuplicateKey == <<"E11000 duplicate key error">>

\* --------------------------------------------------------- InMemoryStorage
\* Each operator is the body of the method between Lock and Unlock.
\* a create that builds a new map holding the one note
MemCreateAlone(notes, note) ==
    [store |-> MapPut(EmptyMap, note.ID, note), err |-> ErrNil]

\* Create that keeps the note an id already has
MemCreateIfAbsent(notes, note) ==
    IF note.ID \in DOMAIN notes
    THEN [store |-> notes, err |-> ErrNil]
    ELSE [store |-> MapPut(notes, note.ID, note), err |-> ErrNil]

MemCreate(notes, note) ==
    [store |-> MapPut(notes, note.ID, note), err |-> ErrNil]

MemGet(notes, id) ==
    IF id \notin DOMAIN notes
    THEN [note |-> NilNote, err |-> ErrNoteNotFound]
    ELSE [note |-> notes[id], err |-> ErrNil]

\* The returned slice is modelled by the set of its elements: the map holds
\* one note per key, so the slice never repeats a note.
MemGetAll(notes) ==
    [notes |-> {notes[id] : id \in DOMAIN notes}, err |-> ErrNil]

\* an update that copies the title into the stored note
MemUpdateTitle(notes, note) ==
    IF note.ID \notin DOMAIN notes
    THEN [store |-> notes, err |-> ErrNoteNotFound]
    ELSE [store |-> MapPut(notes, note.ID, [notes[note.ID] EXCEPT !.Title = note.Title]),
          err |-> ErrNil]

MemUpdate(notes, note) ==
    IF note.ID \notin DOMAIN notes
    THEN [store |-> notes, err |-> ErrNoteNotFound]
    ELSE [store |-> MapPut(notes, note.ID, note), err |-> ErrNil]

\* a delete that does not look whether the id is there
MemDeleteUnchecked(notes, id) ==
    [store |-> MapDelete(notes, id), err |-> ErrNil]

MemDelete(notes, id) ==
    IF id \notin DOMAIN notes
    THEN [store |-> notes, err |-> ErrNoteNotFound]
    ELSE [store |-> MapDelete(notes, id), err |-> ErrNil]

\* ------------------------------------------------- CouchDB database (kivik)
\* The database keeps, per document id, the leaf revision: its generation,
\* whether it is a deletion tombstone, and the JSON body.
DesignPrefix == <<"_", "d", "e", "s", "i", "g", "n", "/">>
LocalPrefix == <<"_", "l", "o", "c", "a", "l", "/">>
Underscore == <<"_">>

\* json.Marshal(note) as stored: "_rev" is the revision asserted by the
\* writer and is not part of the stored body
JsonBody(note) == [note EXCEPT !.Rev = 0]

\* db.Put(ctx, docID, doc): accepted when the document carries the current
\* leaf revision, or carries none and there is no live document
DbPut(db, id, note) ==
    IF id = <<>>
    THEN [db |-> db, rev |-> 0, err |-> KivikDocIDRequired]
    ELSE IF HasPrefix(id, Underscore) /\ ~HasPrefix(id, DesignPrefix)
                                     /\ ~HasPrefix(id, LocalPrefix)
    THEN [db |-> db, rev |-> 0, err |-> KivikReservedId]
    ELSE LET missing == id \notin DOMAIN db
             cur == IF missing THEN 0 ELSE db[id].Rev
             accepted == IF note.Rev = 0
                         THEN missing \/ db[id].Deleted
                         ELSE ~missing /\ db[id].Rev = note.Rev
         IN  IF accepted
             THEN [db |-> MapPut(db, id, [Deleted |-> FALSE, Rev |-> cur + 1,
                                          Doc |-> JsonBody(note)]),
                   rev |-> cur + 1, err |-> ErrNil]
             ELSE [db |-> db, rev |-> 0, err |-> KivikConflict]

\* db.Get(ctx, docID): the row with its revision, or the error
DbGet(db, id) ==
    IF id = <<>>
    THEN [rev |-> 0, doc |-> NilNote, err |-> KivikDocIDRequired]
    ELSE IF id \notin DOMAIN db
    THEN [rev |-> 0, doc |-> NilNote, err |-> KivikMissing]
    ELSE IF db[id].Deleted
    THEN [rev |-> 0, doc |-> NilNote, err |-> KivikDeleted]
    ELSE [rev |-> db[id].Rev, doc |-> db[id].Doc, err |-> ErrNil]

\* db.Delete(ctx, docID, rev): writes a tombstone over the given revision
DbDelete(db, id, rev) ==
    IF id \in DOMAIN db /\ ~db[id].Deleted /\ db[id].Rev = rev
    THEN [db |-> MapPut(db, id, [Deleted |-> TRUE, Rev |-> rev + 1,
                                 Doc |-> NilNote]),
          err |-> ErrNil]
    ELSE [db |-> db, err |-> KivikConflict]

\* db.AllDocs(ctx, include_docs): the keys of the live documents; local
\* documents are not part of the _all_docs view
DbAllDocs(db) ==
    {id \in DOMAIN db : ~db[id].Deleted /\ ~HasPrefix(id, LocalPrefix)}

\* row.ScanDoc(&note): the body with "_rev" set to the row's revision
ScanDoc(db, id) == [db[id].Doc EXCEPT !.Rev = db[id].Rev]

EmptyDb == [x \in {} |-> [Deleted |-> FALSE, Rev |-> 0, Doc |-> NilNote]]

\* ---------------------------------------------------------- CouchDBStorage
\* The methods run by a single caller: their database round trips follow
\* each other with no other writer in between.
CouchCreate(db, note) ==
    LET put == DbPut(db, note.ID, note)
    IN  IF put.err # ErrNil
        THEN [store |-> db, err |-> Wrap("failed to create note", put.err)]
        ELSE [store |-> put.db, err |-> ErrNil]

\* Get that leaves the note unscanned
CouchGetUnscanned(db, id) ==
    LET row == DbGet(db, id)
    IN  IF row.err # ErrNil
        THEN IF row.err = KivikMissing \/ row.err = KivikDeleted
             THEN [note |-> NilNote, err |-> ErrNoteNotFound]
             ELSE [note |-> NilNote, err |-> Wrap("failed to get note", row.err)]
        ELSE [note |-> NilNote, err |-> ErrNil]

CouchGet(db, id) ==
    LET row == DbGet(db, id)
    IN  IF row.err # ErrNil
        THEN IF row.err = KivikMissing \/ row.err = KivikDeleted
             THEN [note |-> NilNote, err |-> ErrNoteNotFound]
             ELSE [note |-> NilNote, err |-> Wrap("failed to get note", row.err)]
        ELSE [note |-> ScanDoc(db, id), err |-> ErrNil]

\* GetAll whose loop appends the address of one note variable declared
\* outside the loop: every element is the row scanned last
CouchGetAllAliased(db) ==
    LET keys == {k \in DbAllDocs(db) :
                    ~(HasPrefix(k, DesignPrefix) \/ HasPrefix(k, Underscore))}
    IN  [notes |-> IF keys = {} THEN {}
                   ELSE {ScanDoc(db, CHOOSE k \in keys : TRUE)},
         err |-> ErrNil]

\* a loop over the rows that skips none
CouchGetAllUnfiltered(db) ==
    [notes |-> {ScanDoc(db, id) : id \in DbAllDocs(db)}, err |-> ErrNil]

\* the loop over the rows: ids with the reserved prefix are skipped
CouchGetAll(db) ==
    [notes |-> {ScanDoc(db, id) :
                    id \in {k \in DbAllDocs(db) :
                               ~(HasPrefix(k, DesignPrefix) \/ HasPrefix(k, Underscore))}},
     err |-> ErrNil]

\* first round trip of Update: read the document for its revision
CouchUpdateRead(db, note) ==
    LET row == DbGet(db, note.ID)
    IN  IF row.err # ErrNil
        THEN IF row.err = KivikMissing
             THEN [rev |-> 0, err |-> ErrNoteNotFound]
             ELSE [rev |-> 0, err |-> Wrap("failed to get note for update", row.err)]
        ELSE [rev |-> row.rev, err |-> ErrNil]

\* a write that carries whatever revision is stored at the time of the put
CouchUpdateWriteCurrent(db, note, rev) ==
    LET put == DbPut(db, note.ID, [note EXCEPT !.Rev = DbGet(db, note.ID).rev])
    IN  IF put.err # ErrNil
        THEN [store |-> db, err |-> Wrap("failed to update note", put.err)]
        ELSE [store |-> put.db, err |-> ErrNil]

\* a write that carries the revision the caller left in the note
CouchUpdateWriteCallerRev(db, note, rev) ==
    LET put == DbPut(db, note.ID, note)
    IN  IF put.err # ErrNil
        THEN [store |-> db, err |-> Wrap("failed to update note", put.err)]
        ELSE [store |-> put.db, err |-> ErrNil]

\* second round trip of Update: note.Rev = rev, then put
CouchUpdateWrite(db, note, rev) ==
    LET put == DbPut(db, note.ID, [note EXCEPT !.Rev = rev])
    IN  IF put.err # ErrNil
        THEN [store |-> db, err |-> Wrap("failed to update note", put.err)]
        ELSE [store |-> put.db, err |-> ErrNil]

CouchUpdate(db, note) ==
    LET read == CouchUpdateRead(db, note)
    IN  IF read.err # ErrNil
        THEN [store |-> db, err |-> read.err]
        ELSE CouchUpdateWrite(db, note, read.rev)

\* first round trip of Delete
CouchDeleteRead(db, id) ==
    LET row == DbGet(db, id)
    IN  IF row.err # ErrNil
        THEN IF row.err = KivikMissing \/ row.err = KivikDeleted
             THEN [rev |-> 0, err |-> ErrNoteNotFound]
             ELSE [rev |-> 0, err |-> Wrap("failed to get note for deletion", row.err)]
        ELSE [rev |-> row.rev, err |-> ErrNil]

\* a delete that, on a conflict, reads the revision again and deletes over it
CouchDeleteWriteRetry(db, id, rev) ==
    LET del == DbDelete(db, id, rev)
        again == DbDelete(db, id, DbGet(db, id).rev)
    IN  IF del.err = ErrNil
        THEN [store |-> del.db, err |-> ErrNil]
        ELSE IF again.err = ErrNil
        THEN [store |-> again.db, err |-> ErrNil]
        ELSE [store |-> db, err |-> Wrap("failed to delete note", again.err)]

\* second round trip of Delete
CouchDeleteWrite(db, id, rev) ==
    LET del == DbDelete(db, id, rev)
    IN  IF del.err # ErrNil
        THEN [store |-> db, err |-> Wrap("failed to delete note", del.err)]
        ELSE [store |-> del.db, err |-> ErrNil]

\* third round trip of Delete: the document must now read as deleted
CouchDeleteVerify(db, id) ==
    LET row == DbGet(db, id)
    IN  IF row.err = ErrNil
        THEN <<"document still exists after deletion">>
        ELSE IF row.err # KivikDeleted
        THEN Wrap("unexpected error after deletion", row.err)
        ELSE ErrNil

CouchDelete(db, id) ==
    LET read == CouchDeleteRead(db, id)
    IN  IF read.err # ErrNil
        THEN [store |-> db, err |-> read.err]
        ELSE LET write == CouchDeleteWrite(db, id, read.rev)
             IN  IF write.err # ErrNil
                 THEN write
                 ELSE [store |-> write.store,
                       err |-> CouchDeleteVerify(write.store, id)]

\* ---------------------------------------------------------- MongoDBStorage
\* A BSON datetime counts milliseconds
BsonTime(t) == t - (t % TicksPerMs)

\* bson.Marshal(note) and the Decode of it
BsonDoc(note) == [note EXCEPT !.CreatedAt = BsonTime(note.CreatedAt),
                              !.UpdatedAt = BsonTime(note.UpdatedAt)]

\* collection.InsertOne with the unique index on _id
MongoCreate(coll, note) ==
    IF note.ID \in DOMAIN coll
    THEN [store |-> coll, err |-> Wrap("failed to insert note", MongoDuplicateKey)]
    ELSE [store |-> MapPut(coll, note.ID, BsonDoc(note)), err |-> ErrNil]

\* collection.FindOne({_id: id}).Decode
MongoGet(coll, id) ==
    IF id \notin DOMAIN coll
    THEN [note |-> NilNote, err |-> ErrNoteNotFound]
    ELSE [note |-> coll[id], err |-> ErrNil]

MongoGetAll(coll) ==
    [notes |-> {coll[id] : id \in DOMAIN coll}, err |-> ErrNil]

\* a ReplaceOne with the upsert option
MongoUpdateUpsert(coll, note) ==
    [store |-> MapPut(coll, note.ID, BsonDoc(note)),
     err |-> IF note.ID \in DOMAIN coll THEN ErrNil ELSE ErrNoteNotFound]

\* collection.ReplaceOne({_id: note.ID}, note) and its MatchedCount
MongoUpdate(coll, note) ==
    LET MatchedCount == IF note.ID \in DOMAIN coll THEN 1 ELSE 0
    IN  IF MatchedCount = 0
        THEN [store |-> coll, err |-> ErrNoteNotFound]
        ELSE [store |-> MapPut(coll, note.ID, BsonDoc(note)), err |-> ErrNil]

\* Delete that reports success without a DeletedCount check
MongoDeleteUnchecked(coll, id) ==
    [store |-> MapDelete(coll, id), err |-> ErrNil]

\* collection.DeleteOne({_id: id}) and its DeletedCount
MongoDelete(coll, id) ==
    LET DeletedCount == IF id \in DOMAIN coll THEN 1 ELSE 0
    IN  IF DeletedCount = 0
        THEN [store |-> coll, err |-> ErrNoteNotFound]
        ELSE [store |-> MapDelete(coll, id), err |-> ErrNil]

\* ------------------------------------------------------------ REST handler
Lower == {"a", "b", "c", "d", "e", "f", "g", "h", "i", "j", "k", "l", "m",
          "n", "o", "p", "q", "r", "s", "t", "u", "v", "w", "x", "y", "z"}
Upper == {"A", "B", "C", "D", "E", "F", "G", "H", "I", "J", "K", "L", "M",
          "N", "O", "P", "Q", "R", "S", "T", "U", "V", "W", "X", "Y", "Z"}
Digit == {"0", "1", "2", "3", "4", "5", "6", "7", "8", "9"}
MaxIdLen == 255

isValidIDChar(c) == c \in Lower \/ c \in Upper \/ c \in Digit \/ c = "-" \/ c = "_"

isValidNoteID(id) ==
    /\ id # <<>>
    /\ \A i \in 1..Len(id) : id[i] # " "
    /\ Len(id) <= MaxIdLen
    /\ \A i \in 1..Len(id) : isValidIDChar(id[i])

\* a middleware that checks only that there is an id
ValidateNoteIDPresent(id) ==
    IF id = <<>> THEN 400
    ELSE 0

\* ValidateNoteIDMiddleware: the status it answers with, 0 when it passes
\* the request on
ValidateNoteIDMiddleware(id) ==
    IF id = <<>> THEN 400
    ELSE IF ~isValidNoteID(id) THEN 400
    ELSE 0

\* json.NewDecoder(r.Body).Decode(&note): members absent from the body
\* leave the zero value
DecodeNote(body) ==
    Note(IF "_id" \in DOMAIN body THEN body["_id"] ELSE <<>>,
         0,
         IF "title" \in DOMAIN body THEN body["title"] ELSE "",
         IF "content" \in DOMAIN body THEN body["content"] ELSE "",
         0, 0)

\* the status updateNote answers with for the error of storage.Update
UpdateStatus(err) ==
    IF err = ErrNil THEN 200
    ELSE IF err = ErrNoteNotFound THEN 404
    ELSE 500

\* the text ValidateNoteIDMiddleware answers with, "" when it passes the
\* request on
ValidateNoteIDText(id) ==
    IF id = <<>> THEN "Note ID is required"
    ELSE IF ~isValidNoteID(id) THEN "Invalid note ID format"
    ELSE ""

\* the status getNote answers with for the error of storage.Get
GetStatus(err) ==
    IF err = ErrNil THEN 200
    ELSE IF err = ErrNoteNotFound THEN 404
    ELSE 500

\* the status createNote answers with for the error of storage.Create
CreateStatus(err) ==
    IF err = ErrNil THEN 201
    ELSE 500

\* the status deleteNote answers with for the error of storage.Delete
DeleteStatus(err) ==
    IF err = ErrNil THEN 204
    ELSE IF err = ErrNoteNotFound THEN 404
    ELSE 500

\* the status getAllNotes answers with for the error of storage.GetAll
GetAllStatus(err) ==
    IF err = ErrNil THEN 200
    ELSE 500

\* the routes of RegisterRoutes
RouteGetAll == "GET /api/notes/"
RouteCreate == "POST /api/notes/"
RouteGet == "GET /api/notes/{id}"
RouteUpdate == "PUT /api/notes/{id}"
RouteDelete == "DELETE /api/notes/{id}"
SingleNoteRoutes == {RouteGet, RouteUpdate, RouteDelete}

\* the text a handler hands to http.Error with a status
ErrorText(route, code) ==
    IF code = 400 THEN "Invalid request body"
    ELSE IF code = 404 THEN "Note not found"
    ELSE IF code # 500 THEN ""
    ELSE IF route = RouteGetAll THEN "Failed to get notes"
    ELSE IF route = RouteCreate THEN "Failed to create note"
    ELSE IF route = RouteGet THEN "Failed to get note"
    ELSE IF route = RouteUpdate THEN "Failed to update note"
    ELSE "Failed to delete note"

\* ------------------------------------------------------------------- state
VARIABLES
    mem,        \* InMemoryStorage.notes
    couch,      \* the database behind CouchDBStorage.db
    mongo,      \* the collection behind MongoDBStorage.collection
    active,     \* the adapters the caller holds as NoteStorage
    last,       \* the call that returned last: operation, arguments, errors
    status,     \* per adapter and id: "never", "created" or "deleted"
    origCreatedAt, \* per adapter and id: CreatedAt given to the create
    clean,      \* per adapter: only creates of fresh ids have succeeded
    procs,      \* per request-handling worker: the call it is in
    rw,         \* InMemoryStorage.mutex
    journal,    \* what the goroutines of a test reported: per worker, the
                \* create, update or delete that returned to it last
    app,        \* the App: its configuration, where Initialize and Run stand,
                \* the connection of its storage, the context of Run
    heap        \* the model.Note objects that callers of the in-memory
                \* storage hold pointers to, and the object each entry of
                \* InMemoryStorage.notes points to

vars == <<mem, couch, mongo, active, last, status, origCreatedAt, clean, procs, rw,
          journal, app, heap>>

\* what the calls of the single caller leave alone
workers == <<procs, rw, journal, app, heap>>

\* what the concurrent workers leave alone
caller == <<active, last, status, origCreatedAt, clean, app, heap>>

\* ----------------------------------------------------- NoteStorage dispatch
StoreOf(b) == IF b = "memory" THEN mem ELSE IF b = "couchdb" THEN couch ELSE mongo

DoCreate(b, note) ==
    IF b = "memory" THEN MemCreate(mem, note)
    ELSE IF b = "couchdb" THEN CouchCreate(couch, note)
    ELSE MongoCreate(mongo, note)

DoGet(b, id) ==
    IF b = "memory" THEN MemGet(mem, id)
    ELSE IF b = "couchdb" THEN CouchGet(couch, id)
    ELSE MongoGet(mongo, id)

DoGetAll(b) ==
    IF b = "memory" THEN MemGetAll(mem)
    ELSE IF b = "couchdb" THEN CouchGetAll(couch)
    ELSE MongoGetAll(mongo)

DoUpdate(b, note) ==
    IF b = "memory" THEN MemUpdate(mem, note)
    ELSE IF b = "couchdb" THEN CouchUpdate(couch, note)
    ELSE MongoUpdate(mongo, note)

DoDelete(b, id) ==
    IF b = "memory" THEN MemDelete(mem, id)
    ELSE IF b = "couchdb" THEN CouchDelete(couch, id)
    ELSE MongoDelete(mongo, id)

\* ------------------------------------------------------------------ inputs
Texts == {<<"T", "C">>, <<"T2", "C2">>}

\* notes for the first id: either text and any timestamps with
\* CreatedAt <= UpdatedAt, and one note that carries a revision token, as
\* Get returns it from CouchDB after the first write
RichNotes ==
    {n \in {Note(NoteIdA, 0, x[1], x[2], c, u) :
                x \in Texts, c \in Times, u \in Times} : n.CreatedAt <= n.UpdatedAt}
    \cup {Note(NoteIdA, 1, "T2", "C2", 1, 1)}

\* one note for each other id, as model.NewNote builds it
PlainNotes == {Note(id, 0, "T", "C", 1, 1) : id \in Ids \ {NoteIdA}}

NoteInputs == RichNotes \cup PlainNotes

\* the notes of the calls compared across the adapters
UniformNotes ==
    {Note(NoteIdA, 0, x[1], x[2], 1, 1) : x \in Texts}
    \cup {Note(NoteIdA, 1, "T2", "C2", 1, 1)} \cup PlainNotes

\* the record of a call: via is "storage" for a direct NoteStorage call and
\* "rest" for a request served by the REST handler; note is the note handed
\* to the storage, kept when some adapter accepted it; code is the HTTP
\* status; route and text are the route of a REST request and the text of
\* an answer written by http.Error
Call(op, via, id, note, err, code) ==
    [op |-> op, via |-> via, id |-> id,
     note |-> IF \E b \in DOMAIN err : err[b] = ErrNil THEN note ELSE NilNote,
     err |-> err, code |-> code, route |-> "", text |-> "", bodyId |-> <<>>]

NoCode == [b \in active |-> 0]

NoCall == Call("none", "storage", <<>>, NilNote, [b \in active |-> ErrNil], NoCode)

\* request bodies: a JSON object with title and content, with or without
\* an "_id" member, and a body that is not JSON; bodyId of a call is the
\* "_id" of the body of a PUT
Malformed == [malformed |-> TRUE]
RestBodies ==
    {[title |-> x[1], content |-> x[2]] : x \in Texts} \cup
    {[_id |-> NoteIdB, title |-> "T2", content |-> "C2"]} \cup {Malformed}

\* ids in the request path: two well-formed ones and one with a character
\* that is not allowed
BadPathId == <<"n", ".">>
PathIds == {NoteIdA, NoteIdB, BadPathId}

\* further ids a request can carry: none, one with a space, one of one
\* character more than isValidNoteID allows
SpaceId == <<"n", " ">>
LongId == [i \in 1..(MaxIdLen + 1) |-> "a"]
RequestIds == PathIds \cup {<<>>, SpaceId, LongId}

\* bodies of POST requests: without an "_id", with a well-formed one, with
\* one that has a character that is not allowed, and a body that is not JSON
CreateBodies ==
    {[title |-> "T", content |-> "C"],
     [_id |-> NoteIdA, title |-> "T", content |-> "C"],
     [_id |-> NoteIdB, title |-> "T", content |-> "C"],
     [_id |-> BadPathId, title |-> "T", content |-> "C"],
     Malformed}

\* bodies of PUT requests
UpdateBodies == {[title |-> "T2", content |-> "C2"], Malformed}

\* the request-handling workers (one goroutine per inbound request)
Procs == {"w1", "w2", "w3"}

\* the call a worker is in: the method, where it stands in it (pc), its
\* arguments, the revision it read, its error, and for a CouchDB write
\* whether the revision was stale at the write and whether the write was
\* applied
Proc(op, pc, id, note, rev, err, stale, applied) ==
    [op |-> op, pc |-> pc, id |-> id, note |-> note, rev |-> rev, err |-> err,
     stale |-> stale, applied |-> applied]

Idle == Proc("none", "idle", <<>>, NilNote, 0, ErrNil, FALSE, FALSE)

\* sync.RWMutex: the writer holding the inner mutex w (and so announced),
\* the readers holding the lock, the readers blocked behind the writer
RWMutex == [writer |-> "none", readers |-> {}, blocked |-> {}]

\* the App of a configuration before Initialize: no connection attempt made,
\* no storage, the context of Run live
NewApp(storageType) ==
    [StorageType |-> storageType, pc |-> "new", tries |-> <<>>, sleeps |-> 0,
     connErr |-> ErrNil, initErr |-> ErrNil, client |-> "none",
     closes |-> 0, closeErr |-> ErrNil, ctx |-> ErrNil, calls |-> <<>>,
     ret |-> ErrNil, steps |-> <<>>, now |-> 0, samples |-> 0, skipped |-> 0,
     grpc |-> 0, inflight |-> 0, late |-> {}]

\* no caller holds a pointer to a note: val is the note of each object, at
\* the object each entry of the map points to, ref the object each caller
\* holds, wrote whether the last step was a caller's store to a field
NoHeap == [val |-> <<>>, at |-> <<>>, ref |-> [p \in Procs |-> 0], wrote |-> FALSE]

\* a storage used without an App around it, its client connected
NoApp == [NewApp("none") EXCEPT !.pc = "none", !.client = "connected"]

\* a journal with nothing reported yet; on is whether a test collects what
\* returns to its goroutines
NoReturn == [op |-> "none", id |-> <<>>, note |-> NilNote, err |-> ErrNil]

Journal(on) == [on |-> on, calls |-> [p \in Procs |-> NoReturn]]

\* the revision generation stays within MaxRev
RevRoom(id) ==
    IF "couchdb" \in active /\ id \in DOMAIN couch
    THEN couch[id].Rev < MaxRev
    ELSE TRUE

\* -------------------------------------------------------------------- Init
InitStores ==
    /\ mem = EmptyMap
    /\ couch = EmptyDb
    /\ mongo = EmptyMap

InitHistory ==
    /\ last = NoCall
    /\ status = [b \in active |-> [id \in Ids |-> "never"]]
    /\ origCreatedAt = [b \in active |-> [id \in Ids |-> 0]]
    /\ clean = [b \in active |-> TRUE]

\* no worker is in a call and the mutex is free
InitWorkers ==
    /\ procs = [p \in Procs |-> Idle]
    /\ rw = RWMutex
    /\ journal = Journal(FALSE)

\* a caller holding one adapter as its NoteStorage
Init ==
    /\ active \in {{b} : b \in Backends}
    /\ InitStores
    /\ InitHistory
    /\ InitWorkers
    /\ heap = NoHeap
    /\ app = NoApp

\* the same calls made on an adapter of each kind
InitUniform ==
    /\ active = Backends
    /\ InitStores
    /\ InitHistory
    /\ InitWorkers
    /\ heap = NoHeap
    /\ app = NoApp

\* ----------------------------------------------------------------- actions
Written(b, new) == IF b \in active THEN new ELSE StoreOf(b)

Create(note) ==
    /\ RevRoom(note.ID)
    /\ mem' = Written("memory", DoCreate("memory", note).store)
    /\ couch' = Written("couchdb", DoCreate("couchdb", note).store)
    /\ mongo' = Written("mongodb", DoCreate("mongodb", note).store)
    /\ last' = Call("create", "storage", note.ID, note,
                     [b \in active |-> DoCreate(b, note).err], NoCode)
    /\ status' = [b \in active |->
                    IF DoCreate(b, note).err = ErrNil
                    THEN [status[b] EXCEPT ![note.ID] = "created"]
                    ELSE status[b]]
    /\ origCreatedAt' = [b \in active |->
                    IF DoCreate(b, note).err = ErrNil
                    THEN [origCreatedAt[b] EXCEPT ![note.ID] = note.CreatedAt]
                    ELSE origCreatedAt[b]]
    /\ clean' = [b \in active |->
                    clean[b] /\ (DoCreate(b, note).err = ErrNil
                                    => status[b][note.ID] = "never")]
    /\ UNCHANGED <<active, workers>>

Get(id) ==
    /\ last' = Call("get", "storage", id, NilNote,
                     [b \in active |-> DoGet(b, id).err], NoCode)
    /\ UNCHANGED <<mem, couch, mongo, active, status, origCreatedAt, clean, workers>>

GetAll ==
    /\ last' = Call("getall", "storage", <<>>, NilNote,
                     [b \in active |-> DoGetAll(b).err], NoCode)
    /\ UNCHANGED <<mem, couch, mongo, active, status, origCreatedAt, clean, workers>>

Update(note) ==
    /\ RevRoom(note.ID)
    /\ mem' = Written("memory", DoUpdate("memory", note).store)
    /\ couch' = Written("couchdb", DoUpdate("couchdb", note).store)
    /\ mongo' = Written("mongodb", DoUpdate("mongodb", note).store)
    /\ last' = Call("update", "storage", note.ID, note,
                     [b \in active |-> DoUpdate(b, note).err], NoCode)
    /\ UNCHANGED <<active, status, origCreatedAt, clean, workers>>

\* PUT /api/notes/{id}: ValidateNoteIDMiddleware, then Handler.updateNote
\* the record of a request answered before any storage call
Rejected(route, id, code, text) ==
    [Call("rejected", "rest", id, NilNote, [b \in active |-> ErrNil],
          [b \in active |-> code]) EXCEPT !.route = route, !.text = text]

\* the record of a request answered after a storage call
Served(op, route, id, note, err, code) ==
    [Call(op, "rest", id, note, err, code) EXCEPT
        !.route = route,
        !.text = IF \E b \in active : TRUE
                 THEN ErrorText(route, code[CHOOSE b \in active : TRUE])
                 ELSE ""]

\* the history of an id the caller keeps track of
Mark(f, id, v) == IF id \in DOMAIN f THEN [f EXCEPT ![id] = v] ELSE f

\* no create of the id has succeeded on the adapter
Fresh(b, id) ==
    IF id \in Ids THEN status[b][id] = "never" ELSE id \notin DOMAIN StoreOf(b)

\* GET /api/notes/
RestGetAllNotes ==
    /\ last' = Served("getall", RouteGetAll, <<>>, NilNote,
                      [b \in active |-> DoGetAll(b).err],
                      [b \in active |-> GetAllStatus(DoGetAll(b).err)])
    /\ UNCHANGED <<mem, couch, mongo, active, status, origCreatedAt, clean, workers>>

\* POST /api/notes/
RestCreateNote(body) ==
    /\ RevRoom(DecodeNote(body).ID)
    /\ IF body = Malformed
       THEN /\ last' = Rejected(RouteCreate, <<>>, 400, ErrorText(RouteCreate, 400))
            /\ UNCHANGED <<mem, couch, mongo, status, origCreatedAt, clean>>
       ELSE LET note == DecodeNote(body)
            IN  /\ mem' = Written("memory", DoCreate("memory", note).store)
                /\ couch' = Written("couchdb", DoCreate("couchdb", note).store)
                /\ mongo' = Written("mongodb", DoCreate("mongodb", note).store)
                /\ last' = Served("create", RouteCreate, note.ID, note,
                                  [b \in active |-> DoCreate(b, note).err],
                                  [b \in active |-> CreateStatus(DoCreate(b, note).err)])
                /\ status' = [b \in active |->
                                IF DoCreate(b, note).err = ErrNil
                                THEN Mark(status[b], note.ID, "created")
                                ELSE status[b]]
                /\ origCreatedAt' = [b \in active |->
                                IF DoCreate(b, note).err = ErrNil
                                THEN Mark(origCreatedAt[b], note.ID, note.CreatedAt)
                                ELSE origCreatedAt[b]]
                /\ clean' = [b \in active |->
                                clean[b] /\ (DoCreate(b, note).err = ErrNil
                                                => Fresh(b, note.ID))]
    /\ UNCHANGED <<active, workers>>

\* GET /api/notes/{id}
RestGetNote(id) ==
    /\ IF ValidateNoteIDMiddleware(id) # 0
       THEN last' = Rejected(RouteGet, id, ValidateNoteIDMiddleware(id),
                             ValidateNoteIDText(id))
       ELSE last' = Served("get", RouteGet, id, NilNote,
                           [b \in active |-> DoGet(b, id).err],
                           [b \in active |-> GetStatus(DoGet(b, id).err)])
    /\ UNCHANGED <<mem, couch, mongo, active, status, origCreatedAt, clean, workers>>

\* PUT /api/notes/{id}
RestUpdateNote(id, body) ==
    /\ RevRoom(id)
    /\ IF ValidateNoteIDMiddleware(id) # 0
       THEN /\ last' = Rejected(RouteUpdate, id, ValidateNoteIDMiddleware(id),
                                ValidateNoteIDText(id))
            /\ UNCHANGED <<mem, couch, mongo>>
       ELSE IF body = Malformed
       THEN /\ last' = Rejected(RouteUpdate, id, 400, ErrorText(RouteUpdate, 400))
            /\ UNCHANGED <<mem, couch, mongo>>
       ELSE LET note == [DecodeNote(body) EXCEPT !.ID = id]
            IN  /\ mem' = Written("memory", DoUpdate("memory", note).store)
                /\ couch' = Written("couchdb", DoUpdate("couchdb", note).store)
                /\ mongo' = Written("mongodb", DoUpdate("mongodb", note).store)
                /\ last' = [Served("update", RouteUpdate, id, note,
                                  [b \in active |-> DoUpdate(b, note).err],
                                  [b \in active |-> UpdateStatus(DoUpdate(b, note).err)])
                              EXCEPT !.bodyId = DecodeNote(body).ID]
    /\ UNCHANGED <<active, status, origCreatedAt, clean, workers>>

\* DELETE /api/notes/{id}
RestDeleteNote(id) ==
    /\ RevRoom(id)
    /\ IF ValidateNoteIDMiddleware(id) # 0
       THEN /\ last' = Rejected(RouteDelete, id, ValidateNoteIDMiddleware(id),
                                ValidateNoteIDText(id))
            /\ UNCHANGED <<mem, couch, mongo, status, origCreatedAt, clean>>
       ELSE /\ mem' = Written("memory", DoDelete("memory", id).store)
            /\ couch' = Written("couchdb", DoDelete("couchdb", id).store)
            /\ mongo' = Written("mongodb", DoDelete("mongodb", id).store)
            /\ last' = Served("delete", RouteDelete, id, NilNote,
                              [b \in active |-> DoDelete(b, id).err],
                              [b \in active |-> DeleteStatus(DoDelete(b, id).err)])
            /\ status' = [b \in active |->
                            IF DoDelete(b, id).err = ErrNil
                            THEN Mark(status[b], id, "deleted")
                            ELSE status[b]]
            /\ origCreatedAt' = [b \in active |->
                            IF DoDelete(b, id).err = ErrNil
                            THEN Mark(origCreatedAt[b], id, 0)
                            ELSE origCreatedAt[b]]
            /\ clean' = [b \in active |-> clean[b] /\ DoDelete(b, id).err # ErrNil]
    /\ UNCHANGED <<active, workers>>

Delete(id) ==
    /\ RevRoom(id)
    /\ mem' = Written("memory", DoDelete("memory", id).store)
    /\ couch' = Written("couchdb", DoDelete("couchdb", id).store)
    /\ mongo' = Written("mongodb", DoDelete("mongodb", id).store)
    /\ last' = Call("delete", "storage", id, NilNote,
                     [b \in active |-> DoDelete(b, id).err], NoCode)
    /\ status' = [b \in active |->
                    IF DoDelete(b, id).err = ErrNil
                    THEN [status[b] EXCEPT ![id] = "deleted"]
                    ELSE status[b]]
    /\ origCreatedAt' = [b \in active |->
                    IF DoDelete(b, id).err = ErrNil
                    THEN [origCreatedAt[b] EXCEPT ![id] = 0]
                    ELSE origCreatedAt[b]]
    /\ clean' = [b \in active |-> clean[b] /\ DoDelete(b, id).err # ErrNil]
    /\ UNCHANGED <<active, workers>>

Next ==
    \/ \E note \in NoteInputs : Create(note)
    \/ \E id \in Ids : Get(id)
    \/ GetAll
    \/ \E note \in NoteInputs : Update(note)
    \/ \E id \in Ids : Delete(id)

Spec == Init /\ [][Next]_vars

NextUniform ==
    \/ \E note \in UniformNotes : Create(note)
    \/ \E id \in Ids : Get(id)
    \/ GetAll
    \/ \E note \in UniformNotes : Update(note)
    \/ \E id \in Ids : Delete(id)

SpecUniform == InitUniform /\ [][NextUniform]_vars

\* the notes created behind the REST handler, as model.NewNote builds them
RestNotes == {Note(id, 0, "T", "C", 1, 1) : id \in {NoteIdA, NoteIdB}}

\* requests served by the REST handler over one adapter
NextRest ==
    \/ \E note \in RestNotes : Create(note)
    \/ \E id \in PathIds, body \in RestBodies : RestUpdateNote(id, body)
    \/ \E id \in PathIds \cap Ids : Get(id)
    \/ \E id \in PathIds \cap Ids : Delete(id)

SpecRest == Init /\ [][NextRest]_vars

\* requests to each route of RegisterRoutes, served over one adapter
NextRoutes ==
    \/ RestGetAllNotes
    \/ \E body \in CreateBodies : RestCreateNote(body)
    \/ \E id \in RequestIds : RestGetNote(id)
    \/ \E id \in RequestIds, body \in UpdateBodies : RestUpdateNote(id, body)
    \/ \E id \in RequestIds : RestDeleteNote(id)

SpecRoutes == Init /\ [][NextRoutes]_vars

\* ------------------------------------------- calls with a done context
\* ctx.Err() of a context that was cancelled, or whose deadline has passed
CtxCanceled == <<"context canceled">>
CtxDeadlineExceeded == <<"context deadline exceeded">>
CtxErrs == {CtxCanceled, CtxDeadlineExceeded}

\* the call of a method by its name, without regard to the context
DoCall(b, op, note) ==
    IF op = "create" THEN DoCreate(b, note)
    ELSE IF op = "update" THEN DoUpdate(b, note)
    ELSE IF op = "delete" THEN DoDelete(b, note.ID)
    ELSE [store |-> StoreOf(b),
          err |-> IF op = "get" THEN DoGet(b, note.ID).err ELSE DoGetAll(b).err]

\* the message an adapter puts in front of the error of the first request
\* it sends to its database
FirstRequestMsg(b, op) ==
    IF b = "couchdb"
    THEN IF op = "create" THEN "failed to create note"
         ELSE IF op = "get" THEN "failed to get note"
         ELSE IF op = "getall" THEN "failed to get all notes"
         ELSE IF op = "update" THEN "failed to get note for update"
         ELSE "failed to get note for deletion"
    ELSE IF op = "create" THEN "failed to insert note"
         ELSE IF op = "get" THEN "failed to find note"
         ELSE IF op = "getall" THEN "failed to find notes"
         ELSE IF op = "update" THEN "failed to update note"
         ELSE "failed to delete note"

\* a method called with a context that is done: InMemoryStorage never reads
\* its ctx parameter; the clients of CouchDB and MongoDB give up the first
\* request with the error of the context
DoCallDone(b, op, note, ctxErr) ==
    IF b = "memory"
    THEN DoCall(b, op, note)
    ELSE [store |-> StoreOf(b), err |-> Wrap(FirstRequestMsg(b, op), ctxErr)]

StorageOps == {"create", "get", "getall", "update", "delete"}

\* a NoteStorage call made with a context that is already done
CallDone(op, note, ctxErr) ==
    /\ RevRoom(note.ID)
    /\ mem' = Written("memory", DoCallDone("memory", op, note, ctxErr).store)
    /\ couch' = Written("couchdb", DoCallDone("couchdb", op, note, ctxErr).store)
    /\ mongo' = Written("mongodb", DoCallDone("mongodb", op, note, ctxErr).store)
    /\ last' = Call(op, "done context", note.ID, note,
                     [b \in active |-> DoCallDone(b, op, note, ctxErr).err], NoCode)
    /\ status' = [b \in active |->
                    IF op \in {"create", "delete"}
                       /\ DoCallDone(b, op, note, ctxErr).err = ErrNil
                    THEN [status[b] EXCEPT ![note.ID] =
                             IF op = "create" THEN "created" ELSE "deleted"]
                    ELSE status[b]]
    /\ origCreatedAt' = [b \in active |->
                    IF op \in {"create", "delete"}
                       /\ DoCallDone(b, op, note, ctxErr).err = ErrNil
                    THEN [origCreatedAt[b] EXCEPT ![note.ID] =
                             IF op = "create" THEN note.CreatedAt ELSE 0]
                    ELSE origCreatedAt[b]]
    /\ clean' = [b \in active |->
                    clean[b] /\
                    IF DoCallDone(b, op, note, ctxErr).err # ErrNil THEN TRUE
                    ELSE IF op = "create" THEN status[b][note.ID] = "never"
                    ELSE op # "delete"]
    /\ UNCHANGED <<active, workers>>

\* calls of one adapter, some of them with a done context
NextCtx ==
    \/ \E note \in RestNotes : Create(note)
    \/ \E id \in {NoteIdA, NoteIdB} : Get(id)
    \/ \E id \in {NoteIdA, NoteIdB} : Delete(id)
    \/ \E op \in StorageOps, note \in RestNotes, ctxErr \in CtxErrs :
           CallDone(op, note, ctxErr)

SpecCtx == Init /\ [][NextCtx]_vars

\* ------------------------------------------ concurrent CouchDBStorage calls
\* Each database round trip of a method is one step; the round trips of the
\* workers interleave.
CouchNotes == {Note(NoteIdA, 0, "T", "C", 1, 1), Note(NoteIdA, 0, "T2", "C2", 1, 1)}

CouchWorkers == {"w1", "w2"}

Free(p) == procs[p].pc \in {"idle", "done"}

\* a write that is accepted stays within MaxRev
RoomFor(store) == store = couch \/ \A id \in DOMAIN store : store[id].Rev <= MaxRev

CouchCreateCall(p, note) ==
    /\ Free(p)
    /\ LET r == CouchCreate(couch, note)
       IN  /\ RoomFor(r.store)
           /\ couch' = r.store
           /\ procs' = [procs EXCEPT ![p] =
                  Proc("create", "done", note.ID, note, 0, r.err, FALSE, r.store # couch)]
    /\ UNCHANGED <<mem, mongo, rw, caller, journal>>

CouchGetCall(p, id) ==
    /\ Free(p)
    /\ LET r == CouchGet(couch, id)
       IN  procs' = [procs EXCEPT ![p] =
               Proc("get", "done", id, r.note, r.note.Rev, r.err, FALSE, FALSE)]
    /\ UNCHANGED <<mem, couch, mongo, rw, caller, journal>>

\* Update up to the answer of its read
CouchUpdateBegin(p, note) ==
    /\ Free(p)
    /\ LET r == CouchUpdateRead(couch, note)
       IN  procs' = [procs EXCEPT ![p] =
               IF r.err # ErrNil
               THEN Proc("update", "done", note.ID, note, 0, r.err, FALSE, FALSE)
               ELSE Proc("update", "write", note.ID, note, r.rev, ErrNil, FALSE, FALSE)]
    /\ UNCHANGED <<mem, couch, mongo, rw, caller, journal>>

\* Update from note.Rev = rev to its return
CouchUpdateEnd(p) ==
    /\ procs[p].op = "update" /\ procs[p].pc = "write"
    /\ LET r == CouchUpdateWrite(couch, procs[p].note, procs[p].rev)
       IN  /\ RoomFor(r.store)
           /\ couch' = r.store
           /\ procs' = [procs EXCEPT ![p].pc = "done", ![p].err = r.err,
                  ![p].stale = (DbGet(couch, procs[p].id).rev # procs[p].rev),
                  ![p].applied = (r.store # couch)]
    /\ UNCHANGED <<mem, mongo, rw, caller, journal>>

\* Delete up to the answer of its read
CouchDeleteBegin(p, id) ==
    /\ Free(p)
    /\ LET r == CouchDeleteRead(couch, id)
       IN  procs' = [procs EXCEPT ![p] =
               IF r.err # ErrNil
               THEN Proc("delete", "done", id, NilNote, 0, r.err, FALSE, FALSE)
               ELSE Proc("delete", "write", id, NilNote, r.rev, ErrNil, FALSE, FALSE)]
    /\ UNCHANGED <<mem, couch, mongo, rw, caller, journal>>

\* Delete from db.Delete to its answer
CouchDeleteEnd(p) ==
    /\ procs[p].op = "delete" /\ procs[p].pc = "write"
    /\ LET r == CouchDeleteWrite(couch, procs[p].id, procs[p].rev)
       IN  /\ RoomFor(r.store)
           /\ couch' = r.store
           /\ procs' = [procs EXCEPT
                  ![p].pc = IF r.err # ErrNil THEN "done" ELSE "verify",
                  ![p].err = r.err,
                  ![p].stale = (DbGet(couch, procs[p].id).rev # procs[p].rev),
                  ![p].applied = (r.store # couch)]
    /\ UNCHANGED <<mem, mongo, rw, caller, journal>>

\* Delete's verification read
CouchDeleteCheck(p) ==
    /\ procs[p].op = "delete" /\ procs[p].pc = "verify"
    /\ procs' = [procs EXCEPT ![p].pc = "done",
                              ![p].err = CouchDeleteVerify(couch, procs[p].id)]
    /\ UNCHANGED <<mem, couch, mongo, rw, caller, journal>>

InitCouch == Init /\ active = {"couchdb"}

NextCouch ==
    \/ \E p \in CouchWorkers, note \in CouchNotes : CouchCreateCall(p, note)
    \/ \E p \in CouchWorkers : CouchGetCall(p, NoteIdA)
    \/ \E p \in CouchWorkers, note \in CouchNotes : CouchUpdateBegin(p, note)
    \/ \E p \in CouchWorkers : CouchUpdateEnd(p)
    \/ \E p \in CouchWorkers : CouchDeleteBegin(p, NoteIdA)
    \/ \E p \in CouchWorkers : CouchDeleteEnd(p)
    \/ \E p \in CouchWorkers : CouchDeleteCheck(p)

SpecCouch == InitCouch /\ [][NextCouch]_vars

\* a database that holds one note, and two workers about to use it
InitCouchStored ==
    /\ active = {"couchdb"}
    /\ mem = EmptyMap
    /\ couch = CouchCreate(EmptyDb, Note(NoteIdA, 0, "T", "C", 1, 1)).store
    /\ mongo = EmptyMap
    /\ InitHistory
    /\ InitWorkers
    /\ heap = NoHeap
    /\ app = NoApp

\* updates, deletes and gets of the stored note by the two workers, their
\* round trips interleaved; nobody creates
NextCouchRace ==
    \/ \E p \in CouchWorkers : CouchGetCall(p, NoteIdA)
    \/ \E p \in CouchWorkers, note \in CouchNotes : CouchUpdateBegin(p, note)
    \/ \E p \in CouchWorkers : CouchUpdateEnd(p)
    \/ \E p \in CouchWorkers : CouchDeleteBegin(p, NoteIdA)
    \/ \E p \in CouchWorkers : CouchDeleteEnd(p)
    \/ \E p \in CouchWorkers : CouchDeleteCheck(p)

SpecCouchRace == InitCouchStored /\ [][NextCouchRace]_vars

\* ---------------------------------------- concurrent InMemoryStorage calls
\* A method is four steps: the call of Lock or RLock, the wake-up when it
\* had to wait, the body, and the deferred Unlock or RUnlock at the return,
\* after which the worker is free for its next request.
MemNotes == {Note(NoteIdA, 0, "T", "C", 1, 1), Note(NoteIdA, 0, "T2", "C2", 1, 1)}

ReadOps == {"get", "getall"}
WriteOps == {"create", "update", "delete"}

\* a request reaches the storage
MemCall(p, op, id, note) ==
    /\ Free(p)
    /\ procs' = [procs EXCEPT ![p] = Proc(op, "lock", id, note, 0, ErrNil, FALSE, FALSE)]
    /\ UNCHANGED <<mem, couch, mongo, rw, caller, journal>>

\* s.mutex.RLock(): enters unless a writer has announced itself
MemRLock(p) ==
    /\ procs[p].pc = "lock" /\ procs[p].op \in ReadOps
    /\ IF rw.writer = "none"
       THEN /\ rw' = [rw EXCEPT !.readers = @ \cup {p}]
            /\ procs' = [procs EXCEPT ![p].pc = "cs"]
       ELSE /\ rw' = [rw EXCEPT !.blocked = @ \cup {p}]
            /\ procs' = [procs EXCEPT ![p].pc = "blocked"]
    /\ UNCHANGED <<mem, couch, mongo, caller, journal>>

\* s.mutex.Lock(): takes the writers' mutex, then waits for the readers
\* that hold the lock to leave
MemLock(p) ==
    /\ procs[p].pc = "lock" /\ procs[p].op \in WriteOps
    /\ rw.writer = "none"
    /\ rw' = [rw EXCEPT !.writer = p]
    /\ procs' = [procs EXCEPT ![p].pc = IF rw.readers = {} THEN "cs" ELSE "blocked"]
    /\ UNCHANGED <<mem, couch, mongo, caller, journal>>

\* a waiting call is woken: a reader by the writer's Unlock, the writer by
\* the RUnlock of the last reader
MemWake(p) ==
    /\ procs[p].pc = "blocked"
    /\ IF procs[p].op \in ReadOps
       THEN p \in rw.readers
       ELSE rw.writer = p /\ rw.readers = {}
    /\ procs' = [procs EXCEPT ![p].pc = "cs"]
    /\ UNCHANGED <<mem, couch, mongo, rw, caller, journal>>

\* the statements between the lock and the return
MemBody(p) ==
    /\ procs[p].pc = "cs"
    /\ LET op == procs[p].op
           r == IF op = "create" THEN MemCreate(mem, procs[p].note)
                ELSE IF op = "update" THEN MemUpdate(mem, procs[p].note)
                ELSE IF op = "delete" THEN MemDelete(mem, procs[p].id)
                ELSE [store |-> mem,
                      err |-> IF op = "get" THEN MemGet(mem, procs[p].id).err
                              ELSE MemGetAll(mem).err]
       IN  /\ mem' = r.store
           /\ procs' = [procs EXCEPT ![p].pc = "unlock", ![p].err = r.err,
                  ![p].note = IF op = "get" THEN MemGet(mem, procs[p].id).note ELSE @,
                  ![p].applied = (r.store # mem)]
    /\ UNCHANGED <<couch, mongo, rw, caller, journal>>

\* the goroutine of worker p reports the create, update or delete that
\* returns to it
Report(p) ==
    IF journal.on /\ procs[p].op \in WriteOps
    THEN [journal EXCEPT !.calls[p] = [op |-> procs[p].op, id |-> procs[p].id,
                                       note |-> procs[p].note, err |-> procs[p].err]]
    ELSE journal

\* an unlock that runs on the successful return only
MemUnlockOnSuccess(p) ==
    /\ procs[p].pc = "unlock"
    /\ rw' = IF procs[p].err # ErrNil THEN rw
             ELSE IF procs[p].op \in ReadOps
             THEN [rw EXCEPT !.readers = @ \ {p}]
             ELSE [writer |-> "none", readers |-> rw.blocked, blocked |-> {}]
    /\ procs' = [procs EXCEPT ![p] = Idle]
    /\ journal' = Report(p)
    /\ UNCHANGED <<mem, couch, mongo, caller>>

\* defer s.mutex.RUnlock() / defer s.mutex.Unlock(): runs at every return
MemUnlock(p) ==
    /\ procs[p].pc = "unlock"
    /\ rw' = IF procs[p].op \in ReadOps
             THEN [rw EXCEPT !.readers = @ \ {p}]
             ELSE [writer |-> "none", readers |-> rw.blocked, blocked |-> {}]
    /\ procs' = [procs EXCEPT ![p] = Idle]
    /\ journal' = Report(p)
    /\ UNCHANGED <<mem, couch, mongo, caller>>

InitMem == Init /\ active = {"memory"}

NextMem ==
    \/ \E p \in Procs, note \in MemNotes : MemCall(p, "create", note.ID, note)
    \/ \E p \in Procs, note \in MemNotes : MemCall(p, "update", note.ID, note)
    \/ \E p \in Procs : MemCall(p, "delete", NoteIdA, NilNote)
    \/ \E p \in Procs : MemCall(p, "get", NoteIdA, NilNote)
    \/ \E p \in Procs : MemCall(p, "getall", <<>>, NilNote)
    \/ \E p \in Procs : MemRLock(p)
    \/ \E p \in Procs : MemLock(p)
    \/ \E p \in Procs : MemWake(p)
    \/ \E p \in Procs : MemBody(p)
    \/ \E p \in Procs : MemUnlock(p)

SpecMem == InitMem /\ [][NextMem]_vars

\* A goroutine that is in a method and able to run does run; sync.Mutex
\* hands the writers' mutex to a waiter that keeps being passed over
\* (starvation mode), so a writer that can take it again and again takes it.
MemFairness ==
    \A p \in Procs :
        /\ WF_vars(MemRLock(p))
        /\ SF_vars(MemLock(p))
        /\ WF_vars(MemWake(p))
        /\ WF_vars(MemBody(p))
        /\ WF_vars(MemUnlock(p))

SpecMemFair == SpecMem /\ MemFairness

\* ------------------------------------ the goroutines of the storage tests
\* the note the tests create before they start their goroutines
SeedId == <<"n", "0">>
SeedNote == Note(SeedId, 0, "T", "C", 1, 1)

\* the store after the test's set-up, the goroutines not yet started, what
\* returns to them collected
InitSeeded ==
    /\ active = {"memory"}
    /\ mem = MemCreate(EmptyMap, SeedNote).store
    /\ couch = EmptyDb
    /\ mongo = EmptyMap
    /\ InitHistory
    /\ procs = [p \in Procs |-> Idle]
    /\ rw = RWMutex
    /\ journal = Journal(TRUE)
    /\ heap = NoHeap
    /\ app = NoApp

\* ConcurrentUpdates: every goroutine updates the one note, with a note of
\* its own
SeedUpdates == {Note(SeedId, 0, "T2", "C", 1, 1), Note(SeedId, 0, "T", "C2", 0, 1)}

NextMemUpdates ==
    \/ \E p \in Procs, note \in SeedUpdates : MemCall(p, "update", SeedId, note)
    \/ \E p \in Procs : MemCall(p, "get", SeedId, NilNote)
    \/ \E p \in Procs : MemRLock(p)
    \/ \E p \in Procs : MemLock(p)
    \/ \E p \in Procs : MemWake(p)
    \/ \E p \in Procs : MemBody(p)
    \/ \E p \in Procs : MemUnlock(p)

SpecMemUpdates == InitSeeded /\ [][NextMemUpdates]_vars

\* ConcurrentWrites, ConcurrentDeletes: every goroutine has an id of its own
IdOf(p) == IF p = "w1" THEN NoteIdA ELSE IF p = "w2" THEN NoteIdB ELSE DesignId

NextMemDistinct ==
    \/ \E p \in Procs : MemCall(p, "create", IdOf(p), Note(IdOf(p), 0, "T2", "C2", 1, 1))
    \/ \E p \in Procs : IdOf(p) \in DOMAIN mem /\ MemCall(p, "delete", IdOf(p), NilNote)
    \/ \E p \in Procs : MemCall(p, "getall", <<>>, NilNote)
    \/ \E p \in Procs : MemRLock(p)
    \/ \E p \in Procs : MemLock(p)
    \/ \E p \in Procs : MemWake(p)
    \/ \E p \in Procs : MemBody(p)
    \/ \E p \in Procs : MemUnlock(p)

SpecMemDistinct == InitSeeded /\ [][NextMemDistinct]_vars

\* the in-memory or the MongoDB storage after the set-up of a test: one note
\* stored, the goroutines not yet started
InitDeletes ==
    /\ active \in {{"memory"}, {"mongodb"}}
    /\ mem = IF active = {"memory"} THEN MemCreate(EmptyMap, SeedNote).store ELSE EmptyMap
    /\ couch = EmptyDb
    /\ mongo = IF active = {"mongodb"} THEN MongoCreate(EmptyMap, SeedNote).store ELSE EmptyMap
    /\ InitHistory
    /\ procs = [p \in Procs |-> Idle]
    /\ rw = RWMutex
    /\ journal = Journal(TRUE)
    /\ heap = NoHeap
    /\ app = NoApp

\* the goroutine of worker p has not made its delete yet
NotDeleted(p) == journal.calls[p].op = "none" /\ procs[p].op # "delete"

\* MongoDBStorage.Delete of a goroutine: one DeleteOne, which the server
\* applies to the collection at once
MongoDeleteCall(p, id) ==
    /\ active = {"mongodb"}
    /\ NotDeleted(p)
    /\ LET r == MongoDelete(mongo, id)
       IN  /\ mongo' = r.store
           /\ journal' = [journal EXCEPT !.calls[p] =
                             [op |-> "delete", id |-> id, note |-> NilNote, err |-> r.err]]
    /\ UNCHANGED <<mem, couch, procs, rw, caller>>

\* every goroutine deletes the one note, once; reads go on beside them
NextDeletes ==
    \/ \E p \in Procs : active = {"memory"} /\ NotDeleted(p)
                            /\ MemCall(p, "delete", SeedId, NilNote)
    \/ \E p \in Procs : active = {"memory"} /\ MemCall(p, "get", SeedId, NilNote)
    \/ \E p \in Procs : MongoDeleteCall(p, SeedId)
    \/ \E p \in Procs : MemRLock(p)
    \/ \E p \in Procs : MemLock(p)
    \/ \E p \in Procs : MemWake(p)
    \/ \E p \in Procs : MemBody(p)
    \/ \E p \in Procs : MemUnlock(p)

SpecDeletes == InitDeletes /\ [][NextDeletes]_vars

\* the revisions a caller can leave in the note it hands to Update
CallerRevs == 0..MaxRev

\* a caller of the CouchDB storage whose updates carry a revision of any
\* age, or none
NextCouchRevs ==
    \/ \E id \in {NoteIdA, NoteIdB} : Create(Note(id, 0, "T", "C", 1, 1))
    \/ \E id \in {NoteIdA, NoteIdB}, r \in CallerRevs : Update(Note(id, r, "T2", "C2", 1, 1))
    \/ \E id \in {NoteIdA, NoteIdB} : Delete(id)
    \/ \E id \in {NoteIdA, NoteIdB} : Get(id)

SpecCouchRevs == InitCouch /\ [][NextCouchRevs]_vars

\* creates and reads on the in-memory storage, none of them a delete
NextMemCreates ==
    \/ \E note \in NoteInputs : Create(note)
    \/ \E id \in Ids : Get(id)
    \/ GetAll

SpecMemCreates == InitMem /\ [][NextMemCreates]_vars

\* -------------------------------------------------------------------- App
\* config.StorageType: "couchdb", "mongodb", and a value that takes the
\* default branch
StorageTypes == {"couchdb", "mongodb", "memory"}

maxAttempts == 10

\* the cap on the Close calls of a test
MaxCloses == 2

\* what a refused connection reports
ConnRefused == <<"connection refused">>

\* a loop that makes one attempt more
LoopOneMore(attempt) == attempt <= maxAttempts + 1

\* the condition of the retry loop: attempt <= maxAttempts
LoopCondition(attempt) == attempt <= maxAttempts

\* a storage that stays the configured one whatever the constructor returned
NoFallback(kind, err) == kind

\* initializeStorage after the constructor: if err != nil the storage is
\* NewInMemoryStorage()
Fallback(kind, err) == IF err # ErrNil THEN "memory" ELSE kind

\* a.storage = storage: the adapter is the App's NoteStorage from here on.
\* NewInMemoryStorage makes an empty map.
Install(kind) ==
    /\ active' = {kind}
    /\ last' = Call("none", "storage", <<>>, NilNote,
                    [b \in {kind} |-> ErrNil], [b \in {kind} |-> 0])
    /\ status' = [b \in {kind} |-> [id \in Ids |-> "never"]]
    /\ origCreatedAt' = [b \in {kind} |-> [id \in Ids |-> 0]]
    /\ clean' = [b \in {kind} |-> TRUE]
    /\ mem' = IF kind = "memory" THEN EmptyMap ELSE mem
    /\ UNCHANGED <<couch, mongo, procs, rw, journal, heap>>

\* one turn of the loop of NewCouchDBStorage: kivik.New, client.Version as
\* the readiness check, and on failure the Sleep
CouchConnectAttempt(ok) ==
    /\ app.StorageType = "couchdb"
    /\ app.pc \in {"new", "connecting"}
    /\ LoopCondition(Len(app.tries) + 1)
    /\ app' = [app EXCEPT !.tries = Append(@, ok),
                          !.sleeps = IF ok THEN @ ELSE @ + 1,
                          !.pc = IF ok THEN "opening" ELSE "connecting"]
    /\ UNCHANGED <<mem, couch, mongo, active, last, status, origCreatedAt, clean,
                   procs, rw, journal, heap>>

\* the loop is left with err # nil: NewCouchDBStorage returns the error and
\* initializeStorage falls back
CouchGiveUp ==
    /\ app.pc = "connecting"
    /\ ~LoopCondition(Len(app.tries) + 1)
    /\ app' = [app EXCEPT !.pc = "ready",
                  !.connErr = Wrap("failed to connect to CouchDB after retries",
                                   ConnRefused)]
    /\ Install(Fallback("couchdb", Wrap("failed to connect to CouchDB after retries",
                                        ConnRefused)))

\* NewCouchDBStorage after the loop: DBExists, CreateDB, client.DB; then the
\* rest of initializeStorage
CouchOpenDatabase(failure) ==
    /\ app.pc = "opening"
    /\ app' = [app EXCEPT !.pc = "ready",
                  !.connErr = IF failure = "none" THEN ErrNil
                              ELSE Wrap(failure, ConnRefused)]
    /\ Install(Fallback("couchdb", IF failure = "none" THEN ErrNil
                                    ELSE Wrap(failure, ConnRefused)))

CouchOpenFailures == {"none", "failed to check if database exists",
                      "failed to create database", "failed to get database"}

\* NewMongoDBStorage (mongo.Connect, client.Ping), then the rest of
\* initializeStorage
MongoConnect(failure) ==
    /\ app.StorageType = "mongodb"
    /\ app.pc = "new"
    /\ app' = [app EXCEPT !.pc = "ready",
                  !.client = IF failure = "none" THEN "connected" ELSE "none",
                  !.connErr = IF failure = "none" THEN ErrNil
                              ELSE Wrap(failure, ConnRefused)]
    /\ Install(Fallback("mongodb", IF failure = "none" THEN ErrNil
                                    ELSE Wrap(failure, ConnRefused)))

MongoConnectFailures == {"none", "failed to connect to MongoDB", "failed to ping MongoDB"}

\* the default branch of initializeStorage
UseInMemory ==
    /\ app.StorageType \notin {"couchdb", "mongodb"}
    /\ app.pc = "new"
    /\ app' = [app EXCEPT !.pc = "ready"]
    /\ Install("memory")

\* the context handed to Run is cancelled, or its deadline passes
CtxDone(ctxErr) ==
    /\ app.pc # "none"
    /\ app.ctx = ErrNil
    /\ app' = [app EXCEPT !.ctx = ctxErr]
    /\ UNCHANGED <<mem, couch, mongo, active, last, status, origCreatedAt, clean,
                   procs, rw, journal, heap>>

\* client.Disconnect of the MongoDB driver: an error when the client is
\* not connected
MongoDisconnect(client) ==
    IF client = "connected"
    THEN [client |-> "disconnected", err |-> ErrNil]
    ELSE [client |-> client, err |-> <<"client is disconnected">>]

\* NoteStorage.Close of the adapter: InMemoryStorage and CouchDBStorage
\* return nil, MongoDBStorage disconnects its client
DoClose(b, client) ==
    IF b = "mongodb"
    THEN LET d == MongoDisconnect(client)
         IN  [client |-> d.client,
              err |-> IF d.err # ErrNil
                      THEN Wrap("failed to disconnect from MongoDB", d.err)
                      ELSE ErrNil]
    ELSE [client |-> client, err |-> ErrNil]

TheStorage == CHOOSE b \in active : TRUE

\* a.storage.Close as the tests call it
Close ==
    /\ app.pc \in {"ready", "waiting", "stopped"}
    /\ app.closes < MaxCloses
    /\ LET r == DoClose(TheStorage, app.client)
       IN  app' = [app EXCEPT !.client = r.client, !.closeErr = r.err,
                              !.closes = @ + 1]
    /\ UNCHANGED <<mem, couch, mongo, active, last, status, origCreatedAt, clean,
                   procs, rw, journal, heap>>

\* the notes of createSampleNotes
SampleNotes ==
    <<[title |-> "Welcome to Notes API",
       content |-> "This is a simple notes management API with REST and gRPC interfaces."],
      [title |-> "How to use the API",
       content |-> "You can create, read, update, and delete notes using the REST API or gRPC."],
      [title |-> "REST API Endpoints",
       content |-> "GET /api/notes - List all notes\nGET /api/notes/{id} - Get a note by ID\nPOST /api/notes - Create a new note\nPUT /api/notes/{id} - Update a note\nDELETE /api/notes/{id} - Delete a note"]>>

\* the decimal digit of a clock reading
DigitChar(n) ==
    CASE n = 0 -> "0" [] n = 1 -> "1" [] n = 2 -> "2" [] n = 3 -> "3" [] n = 4 -> "4"
      [] n = 5 -> "5" [] n = 6 -> "6" [] n = 7 -> "7" [] n = 8 -> "8" [] OTHER -> "9"

\* generateID: time.Now().Format("20060102150405.000000"), the clock read
\* in microseconds; the seconds are left at one digit
generateID(now) == <<DigitChar(now \div 10), ".", DigitChar(now % 10)>>

\* model.NewNote at the clock reading now
NewNote(title, content, now) == Note(generateID(now), 0, title, content, now, now)

\* the phrases isDuplicateKeyError searches for that a message contains
Phrases(msg) ==
    IF msg = "E11000 duplicate key error" THEN {"E11000 duplicate key error"}
    ELSE IF msg \in {"Conflict: Document update conflict.", "Document update conflict"}
    THEN {"conflict", "Document update conflict"}
    ELSE IF msg = "conflict" THEN {"conflict"}
    ELSE IF msg = "note already exists" THEN {"note already exists"}
    ELSE {}

\* strings.Contains(err.Error(), phrase)
Contains(err, phrase) == \E i \in 1..Len(err) : phrase \in Phrases(err[i])

\* a check for the MongoDB message only
isDuplicateKeyErrorMongo(err) ==
    /\ err # ErrNil
    /\ Contains(err, "E11000 duplicate key error")

isDuplicateKeyError(err) ==
    /\ err # ErrNil
    /\ \/ Contains(err, "E11000 duplicate key error")
       \/ Contains(err, "conflict") \/ Contains(err, "Document update conflict")
       \/ Contains(err, "note already exists")

\* what the MongoDB driver reports for a request on a client that was
\* disconnected
MongoClosedErrs == {<<"client is disconnected">>, <<"topology is closed">>}

\* a call of the App's storage under a context: a disconnected MongoDB
\* client fails the request, a done context fails it in the CouchDB and
\* MongoDB adapters
AppCall(b, op, note, ctxErr, closedErr) ==
    IF b = "mongodb" /\ app.client # "connected"
    THEN [store |-> StoreOf(b), err |-> Wrap(FirstRequestMsg(b, op), closedErr)]
    ELSE IF ctxErr # ErrNil
    THEN DoCallDone(b, op, note, ctxErr)
    ELSE DoCall(b, op, note)

\* the stores after a call of the App's storage, and the record of the call
AppStores(op, via, note, r) ==
    /\ mem' = IF TheStorage = "memory" THEN r.store ELSE mem
    /\ couch' = IF TheStorage = "couchdb" THEN r.store ELSE couch
    /\ mongo' = IF TheStorage = "mongodb" THEN r.store ELSE mongo
    /\ last' = Call(op, via, note.ID, note, [b \in active |-> r.err], NoCode)
    /\ status' = [b \in active |->
                    IF r.err = ErrNil /\ op = "create"
                    THEN Mark(status[b], note.ID, "created")
                    ELSE status[b]]
    /\ origCreatedAt' = [b \in active |->
                    IF r.err = ErrNil /\ op = "create"
                    THEN Mark(origCreatedAt[b], note.ID, note.CreatedAt)
                    ELSE origCreatedAt[b]]
    /\ clean' = [b \in active |->
                    clean[b] /\ ((r.err = ErrNil /\ op = "create") => Fresh(b, note.ID))]
    /\ UNCHANGED <<active, procs, rw, journal, heap>>

\* the cap on the calls of Server.CreateNote
MaxGrpc == 1

\* Server.CreateNote of the gRPC server: model.NewNote, then storage.Create
GrpcCreateNote(closedErr) ==
    /\ app.pc \in {"ready", "samples", "waiting", "closing", "stopped", "failed"}
    /\ app.grpc < MaxGrpc
    /\ LET note == NewNote("T", "C", app.now)
           r == AppCall(TheStorage, "create", note, ErrNil, closedErr)
       IN  /\ AppStores("create", "grpc", note, r)
           /\ app' = [app EXCEPT !.grpc = @ + 1,
                                 !.late = IF app.pc = "stopped" THEN @ \cup {"grpc"} ELSE @]

\* Run: startServers, up to the call of createSampleNotes
Run ==
    /\ app.pc = "ready"
    /\ app' = [app EXCEPT !.pc = "samples",
                          !.steps = <<"startServers", "createSampleNotes">>]
    /\ UNCHANGED <<mem, couch, mongo, active, last, status, origCreatedAt, clean,
                   procs, rw, journal, heap>>

\* one turn of the loop of createSampleNotes. After a create the loop
\* sleeps a millisecond; after a duplicate it goes on at once, the clock
\* dt microseconds further. After the last turn Run calls waitForShutdown;
\* on any other error createSampleNotes and Run return it.
CreateSampleNote(dt, closedErr) ==
    /\ app.pc = "samples"
    /\ app.samples < Len(SampleNotes)
    /\ LET sample == SampleNotes[app.samples + 1]
           note == NewNote(sample.title, sample.content, app.now)
           r == AppCall(TheStorage, "create", note, app.ctx, closedErr)
           more == app.samples + 1 < Len(SampleNotes)
       IN  /\ AppStores("create", "samples", note, r)
           /\ app' =
                IF r.err = ErrNil
                THEN [app EXCEPT !.samples = @ + 1, !.now = @ + 1,
                         !.pc = IF more THEN "samples" ELSE "waiting",
                         !.steps = IF more THEN @ ELSE Append(@, "waitForShutdown")]
                ELSE IF isDuplicateKeyError(r.err)
                THEN [app EXCEPT !.samples = @ + 1, !.skipped = @ + 1, !.now = @ + dt,
                         !.pc = IF more THEN "samples" ELSE "waiting",
                         !.steps = IF more THEN @ ELSE Append(@, "waitForShutdown")]
                ELSE [app EXCEPT !.pc = "failed",
                         !.ret = Wrap("failed to create sample notes",
                                      Wrap("failed to create sample note", r.err))]

\* a request reaches the REST server and its handler starts
RestAccept ==
    /\ app.pc \in {"samples", "waiting"}
    /\ app.inflight = 0
    /\ app' = [app EXCEPT !.inflight = 1]
    /\ UNCHANGED <<mem, couch, mongo, active, last, status, origCreatedAt, clean,
                   procs, rw, journal, heap>>

\* the handler of the request in flight (updateNote of a note that was not
\* stored) has read its body and makes its storage call
RestHandle(closedErr) ==
    /\ app.inflight = 1
    /\ LET note == [DecodeNote([title |-> "T2", content |-> "C2"]) EXCEPT !.ID = NoteIdA]
           r == AppCall(TheStorage, "update", note, ErrNil, closedErr)
       IN  /\ AppStores("update", "rest", note, r)
           /\ app' = [app EXCEPT !.inflight = 0,
                                 !.late = IF app.pc = "stopped" THEN @ \cup {"rest"} ELSE @]

\* a waitForShutdown that returns the error of Shutdown
WaitForShutdownServerOrFail(err) ==
    /\ app.pc = "waiting"
    /\ app.ctx # ErrNil
    /\ app.inflight > 0 => err # ErrNil
    /\ app' = [app EXCEPT !.pc = IF err # ErrNil THEN "stopped" ELSE "closing",
                          !.calls = Append(@, <<"Shutdown", err>>),
                          !.ret = err]
    /\ UNCHANGED <<mem, couch, mongo, active, last, status, origCreatedAt, clean,
                   procs, rw, journal, heap>>

\* waitForShutdown from <-ctx.Done() to the return of restServer.Shutdown:
\* Shutdown returns nil once no request is in flight, and the error of
\* shutdownCtx when the five seconds pass first
WaitForShutdownServer(err) ==
    /\ app.pc = "waiting"
    /\ app.ctx # ErrNil
    /\ app.inflight > 0 => err # ErrNil
    /\ app' = [app EXCEPT !.pc = "closing", !.calls = Append(@, <<"Shutdown", err>>)]
    /\ UNCHANGED <<mem, couch, mongo, active, last, status, origCreatedAt, clean,
                   procs, rw, journal, heap>>

\* waitForShutdown from a.storage.Close to return ctx.Err()
WaitForShutdownStorage ==
    /\ app.pc = "closing"
    /\ LET r == DoClose(TheStorage, app.client)
       IN  app' = [app EXCEPT !.pc = "stopped", !.client = r.client,
                              !.closeErr = r.err, !.closes = @ + 1,
                              !.calls = Append(@, <<"Close", r.err>>),
                              !.ret = app.ctx]
    /\ UNCHANGED <<mem, couch, mongo, active, last, status, origCreatedAt, clean,
                   procs, rw, journal, heap>>

ShutdownErrs == {ErrNil, CtxDeadlineExceeded}

InitApp ==
    /\ active = {}
    /\ InitStores
    /\ InitHistory
    /\ InitWorkers
    /\ heap = NoHeap
    /\ app \in {NewApp(t) : t \in StorageTypes}

\* requests are served between Run and the shutdown, the storage not closed
Serving == app.pc = "waiting" /\ app.closes = 0

NextApp ==
    \/ \E ok \in BOOLEAN : CouchConnectAttempt(ok)
    \/ CouchGiveUp
    \/ \E failure \in CouchOpenFailures : CouchOpenDatabase(failure)
    \/ \E failure \in MongoConnectFailures : MongoConnect(failure)
    \/ UseInMemory
    \/ \E ctxErr \in CtxErrs : CtxDone(ctxErr)
    \/ Close
    \/ Run
    \/ \E dt \in {0, 1}, closedErr \in MongoClosedErrs : CreateSampleNote(dt, closedErr)
    \/ \E err \in ShutdownErrs : WaitForShutdownServer(err)
    \/ WaitForShutdownStorage
    \/ Serving /\ Create(Note(NoteIdA, 0, "T", "C", 1, 1))
    \/ Serving /\ Get(NoteIdA)

SpecApp == InitApp /\ [][NextApp]_vars

\* an App after Initialize, for each kind of storage, the storage empty
InitRun ==
    /\ active \in {{b} : b \in Backends}
    /\ InitStores
    /\ InitHistory
    /\ InitWorkers
    /\ heap = NoHeap
    /\ app = [NewApp(TheStorage) EXCEPT !.pc = "ready",
                 !.client = IF TheStorage = "mongodb" THEN "connected" ELSE "none"]

\* Run from its call to its return, with a gRPC CreateNote and a REST
\* request beside it
NextRun ==
    \/ \E closedErr \in MongoClosedErrs : GrpcCreateNote(closedErr)
    \/ Run
    \/ \E dt \in {0, 1}, closedErr \in MongoClosedErrs : CreateSampleNote(dt, closedErr)
    \/ \E ctxErr \in CtxErrs : CtxDone(ctxErr)
    \/ RestAccept
    \/ \E closedErr \in MongoClosedErrs : RestHandle(closedErr)
    \/ \E err \in ShutdownErrs : WaitForShutdownServer(err)
    \/ WaitForShutdownStorage

SpecRun == InitRun /\ [][NextRun]_vars

\* A connection attempt returns, and so do Shutdown and Close, which run
\* under the five-second shutdownCtx; the goroutine of Run goes on
AppFairness ==
    /\ WF_vars(\E ok \in BOOLEAN : CouchConnectAttempt(ok))
    /\ WF_vars(CouchGiveUp)
    /\ WF_vars(\E err \in ShutdownErrs : WaitForShutdownServer(err))
    /\ WF_vars(WaitForShutdownStorage)

SpecAppFair == SpecApp /\ AppFairness

\* ------------------------------------- pointers into InMemoryStorage.notes
\* InMemoryStorage.notes is a map[string]*model.Note: Create and Update
\* store the pointer they are handed, Get returns the pointer stored. A
\* caller's store to a field of a note is a store to the object, whoever
\* else points to it.

\* the cap on the note objects allocated
MaxObjs == 2

\* the callers that hold pointers
Holders == {"w1", "w2"}

\* the entries of the map, read through their pointers
Deref(val, at) == [id \in DOMAIN at |-> val[at[id]]]

\* the record of a call of the in-memory storage
AliasCall(op, id, note, err) ==
    Call(op, "storage", id, note, [b \in active |-> err], NoCode)

\* note := model.NewNote("T", "C"), for the one id of the scenario
AliasNewNote(p) ==
    /\ Len(heap.val) < MaxObjs
    /\ heap' = [heap EXCEPT !.val = Append(@, Note(NoteIdA, 0, "T", "C", 1, 1)),
                            !.ref[p] = Len(heap.val) + 1,
                            !.wrote = FALSE]
    /\ UNCHANGED <<mem, couch, mongo, active, last, status, origCreatedAt, clean,
                   procs, rw, journal, app>>

\* storage.Create(ctx, note) with the pointer the caller holds
AliasCreate(p) ==
    /\ heap.ref[p] # 0
    /\ LET note == heap.val[heap.ref[p]]
           r == MemCreate(mem, note)
       IN  /\ heap' = [heap EXCEPT !.at = MapPut(@, note.ID, heap.ref[p]), !.wrote = FALSE]
           /\ mem' = r.store
           /\ last' = AliasCall("create", note.ID, note, r.err)
    /\ UNCHANGED <<couch, mongo, active, status, origCreatedAt, clean,
                   procs, rw, journal, app>>

\* note, err := storage.Get(ctx, id): the caller holds the pointer stored
AliasGet(p, id) ==
    /\ LET r == MemGet(mem, id)
       IN  /\ heap' = [heap EXCEPT !.ref[p] = IF r.err = ErrNil THEN heap.at[id] ELSE @,
                                   !.wrote = FALSE]
           /\ last' = AliasCall("get", id, r.note, r.err)
    /\ UNCHANGED <<mem, couch, mongo, active, status, origCreatedAt, clean,
                   procs, rw, journal, app>>

\* note.Title = title; note.Content = content (Server.UpdateNote before its
\* call of Update, the storage test after its Create): every entry of the
\* map that points to the object shows the new text
AliasStoreFields(p, text) ==
    /\ heap.ref[p] # 0
    /\ LET val == [heap.val EXCEPT ![heap.ref[p]].Title = text[1],
                                   ![heap.ref[p]].Content = text[2]]
       IN  /\ heap' = [heap EXCEPT !.val = val, !.wrote = TRUE]
           /\ mem' = Deref(val, heap.at)
    /\ UNCHANGED <<couch, mongo, active, last, status, origCreatedAt, clean,
                   procs, rw, journal, app>>

\* storage.Update(ctx, note) with the pointer the caller holds
AliasUpdate(p) ==
    /\ heap.ref[p] # 0
    /\ LET note == heap.val[heap.ref[p]]
           r == MemUpdate(mem, note)
       IN  /\ heap' = [heap EXCEPT
                         !.at = IF r.err = ErrNil THEN MapPut(@, note.ID, heap.ref[p]) ELSE @,
                         !.wrote = FALSE]
           /\ mem' = r.store
           /\ last' = AliasCall("update", note.ID, note, r.err)
    /\ UNCHANGED <<couch, mongo, active, status, origCreatedAt, clean,
                   procs, rw, journal, app>>

\* storage.Delete(ctx, id)
AliasDelete(id) ==
    /\ LET r == MemDelete(mem, id)
       IN  /\ heap' = [heap EXCEPT
                         !.at = IF r.err = ErrNil THEN MapDelete(@, id) ELSE @,
                         !.wrote = FALSE]
           /\ mem' = r.store
           /\ last' = AliasCall("delete", id, NilNote, r.err)
    /\ UNCHANGED <<couch, mongo, active, status, origCreatedAt, clean,
                   procs, rw, journal, app>>

\* callers of the in-memory storage that keep the pointers they hand in
\* and get back
NextMemAlias ==
    \/ \E p \in Holders : AliasNewNote(p)
    \/ \E p \in Holders : AliasCreate(p)
    \/ \E p \in Holders : AliasGet(p, NoteIdA)
    \/ \E p \in Holders, text \in Texts : AliasStoreFields(p, text)
    \/ \E p \in Holders : AliasUpdate(p)
    \/ AliasDelete(NoteIdA)

SpecMemAlias == InitMem /\ [][NextMemAlias]_vars

\* ================================================================== claims
\* the adapter holds a record for id
HasRecord(b, id) ==
    IF b = "couchdb"
    THEN id \in DOMAIN couch /\ ~couch[id].Deleted
    ELSE id \in DOMAIN StoreOf(b)

SameText(a, n) == a.ID = n.ID /\ a.Title = n.Title /\ a.Content = n.Content

\* the ids for which the adapter's last successful create or delete was a create
CreatedIds(b) == {id \in Ids : status[b][id] = "created"}

\* C1: round trip. In every adapter, once create(n) has returned success,
\* get(n.ID) succeeds and returns a note with the ID, Title and Content of n.
C1_RoundTrip ==
    \A b \in active :
        (last.op = "create" /\ last.err[b] = ErrNil)
            => /\ DoGet(b, last.id).err = ErrNil
               /\ SameText(DoGet(b, last.id).note, last.note)

C1_Witness ==
    /\ last.op = "create"
    /\ last.note.Title = "T2"
    /\ \E b \in active : b = "couchdb" /\ last.err[b] = ErrNil

\* C2: not-found consistency. In every adapter, get, update and delete on
\* an id that was never created, or was created and then deleted, return
\* ErrNoteNotFound.
C2_NotFoundConsistency ==
    \A b \in active : \A id \in Ids :
        status[b][id] \in {"never", "deleted"}
            => /\ DoGet(b, id).err = ErrNoteNotFound
               /\ DoDelete(b, id).err = ErrNoteNotFound
               /\ \A note \in NoteInputs :
                      note.ID = id => DoUpdate(b, note).err = ErrNoteNotFound

\* C3: delete finality. In every adapter, once delete(id) has succeeded and
\* no create(id) has succeeded since, get(id) and delete(id) return
\* ErrNoteNotFound.
C3_DeleteFinality ==
    \A b \in active : \A id \in Ids :
        status[b][id] = "deleted"
            => /\ DoGet(b, id).err = ErrNoteNotFound
               /\ DoDelete(b, id).err = ErrNoteNotFound
               /\ (last.op \in {"get", "delete"} /\ last.id = id
                      /\ ~(last.op = "delete" /\ last.err[b] = ErrNil))
                      => last.err[b] = ErrNoteNotFound

C3_Witness ==
    \E b \in active :
        /\ last.op = "delete"
        /\ status[b][last.id] = "deleted"
        /\ last.err[b] = ErrNoteNotFound

\* C4: no upsert. In every adapter, an update of an id that has no record
\* returns ErrNoteNotFound and leaves the stored set unchanged.
C4_NoUpsert ==
    [][\A b \in active :
          (last'.op = "update" /\ ~HasRecord(b, last'.id))
              => /\ last'.err[b] = ErrNoteNotFound
                 /\ mem' = mem /\ couch' = couch /\ mongo' = mongo]_vars

\* the errors by which the adapters report a create on a taken id
AlreadyExists(err) ==
    \/ err = Wrap("failed to create note", KivikConflict)
    \/ err = Wrap("failed to insert note", MongoDuplicateKey)
    \/ err = <<"note already exists">>

\* C5: duplicate create is rejected. In every adapter, create on an id that
\* has a record fails with an already-exists error and leaves the stored
\* record unchanged.
C5_DuplicateCreateRejected ==
    [][\A b \in active :
          (last'.op = "create" /\ HasRecord(b, last'.id))
              => /\ AlreadyExists(last'.err[b])
                 /\ last'.err[b] # ErrNoteNotFound
                 /\ mem' = mem /\ couch' = couch /\ mongo' = mongo]_vars

\* C6: update monotonicity. Whenever an update of an existing note returns
\* success, through NoteStorage or through the REST PUT handler, get
\* returns the Title and Content of the update and an UpdatedAt that is not
\* before the CreatedAt the note was created with.
C6_UpdateMonotonicity ==
    \A b \in active :
        (last.op = "update" /\ last.err[b] = ErrNil)
            => /\ DoGet(b, last.id).err = ErrNil
               /\ SameText(DoGet(b, last.id).note, last.note)
               /\ DoGet(b, last.id).note.UpdatedAt >= origCreatedAt[b][last.id]

\* C7: list completeness. From an empty store, after creates of pairwise
\* distinct ids and no delete, list returns exactly one record per created
\* id.
C7_ListCompleteness ==
    \A b \in active :
        clean[b]
            => /\ {n.ID : n \in DoGetAll(b).notes} = CreatedIds(b)
               /\ Cardinality(DoGetAll(b).notes) = Cardinality(CreatedIds(b))

\* C7 as amended: the same, for created ids that do not start with the
\* reserved prefix "_".
C7_ListCompletenessUnreserved ==
    \A b \in active :
        (clean[b] /\ \A id \in CreatedIds(b) : ~HasPrefix(id, Underscore))
            => /\ DoGetAll(b).err = ErrNil
               /\ {n.ID : n \in DoGetAll(b).notes} = CreatedIds(b)
               /\ Cardinality(DoGetAll(b).notes) = Cardinality(CreatedIds(b))

C7_Witness ==
    \E b \in active :
        /\ b = "couchdb"
        /\ clean[b]
        /\ CreatedIds(b) = {NoteIdA, NoteIdB}
        /\ last.op = "getall"

\* the outcome class of an error
Class(err) ==
    IF err = ErrNil THEN "Success"
    ELSE IF err = ErrNoteNotFound THEN "NotFound"
    ELSE IF AlreadyExists(err) THEN "AlreadyExists"
    ELSE "Other"

View(b) == {[ID |-> n.ID, Title |-> n.Title, Content |-> n.Content] :
                n \in DoGetAll(b).notes}

\* C8: cross-backend uniformity. The same calls made on an in-memory, a
\* CouchDB and a MongoDB adapter have the same outcome class in all three,
\* and the three stores then list the same notes.
C8_CrossBackendUniformity ==
    active = Backends =>
        \A b1 \in active : \A b2 \in active :
            /\ Class(last.err[b1]) = Class(last.err[b2])
            /\ View(b1) = View(b2)

\* an update of worker p that went on to its write
Wrote(p) == procs[p].op = "update" /\ procs[p].pc = "done" /\ procs[p].rev # 0

\* C9: when updates of one document overlap in the revision-based adapter, a
\* write whose revision is the stored one succeeds and is applied, a write
\* based on a stale revision fails with a conflict and is not applied, and
\* the stored document is always one complete submitted note.
C9_RevisionConcurrency ==
    /\ \A p \in CouchWorkers :
          Wrote(p) =>
              IF procs[p].stale
              THEN /\ procs[p].err = Wrap("failed to update note", KivikConflict)
                   /\ ~procs[p].applied
              ELSE /\ procs[p].err = ErrNil
                   /\ procs[p].applied
    /\ \A id \in DOMAIN couch :
          ~couch[id].Deleted => \E n \in CouchNotes : couch[id].Doc = JsonBody(n)

\* two updates read the same revision; one was applied, the other met the
\* conflict
C9_Witness ==
    \E p, q \in CouchWorkers :
        /\ p # q /\ Wrote(p) /\ Wrote(q)
        /\ procs[p].rev = procs[q].rev
        /\ procs[p].err = ErrNil /\ procs[p].applied
        /\ procs[q].stale /\ procs[q].err = Wrap("failed to update note", KivikConflict)
        /\ couch[NoteIdA].Doc = JsonBody(procs[p].note)
        /\ procs[p].note # procs[q].note

\* worker p is between its lock and its unlock
Holds(p) == procs[p].pc \in {"cs", "unlock"}

\* worker p has called Lock or RLock and is not yet past it
Waits(p) == procs[p].pc \in {"lock", "blocked"}

\* worker p is out of its call and holds nothing of the lock
Returned(p) == procs[p].pc = "idle" /\ p \notin rw.readers /\ rw.writer # p

WriterExclusion ==
    \A p, q \in Procs :
        (p # q /\ Holds(p) /\ Holds(q)) =>
            (procs[p].op \in ReadOps /\ procs[q].op \in ReadOps)

\* C10: in the in-memory adapter a create, update or delete holds the lock
\* alone, gets and lists may hold it together, and every call that takes or
\* waits for the lock returns with the lock released, so none blocks forever.
C10_InMemoryLocking ==
    /\ []WriterExclusion
    /\ \A p \in Procs : (Waits(p) \/ Holds(p)) ~> Returned(p)

\* two reads are inside together while a writer waits for them
C10_Witness ==
    \E p, q, w \in Procs :
        /\ p # q
        /\ Holds(p) /\ Holds(q)
        /\ procs[p].op \in ReadOps /\ procs[q].op \in ReadOps
        /\ procs[w].op \in WriteOps /\ procs[w].pc = "blocked"

\* the create, update or delete that returned last to worker p, p being out
\* of any later call
Reported(p, op) == journal.calls[p].op = op /\ procs[p].pc = "idle"

\* C11: updates of one existing note that run together in the in-memory
\* adapter all return success, and once all have returned Get returns a
\* note equal in every field to one of the notes submitted.
C11_NoPartialRecord ==
    /\ \A p \in Procs : journal.calls[p].op = "update" => journal.calls[p].err = ErrNil
    /\ ((\A p \in Procs : procs[p].op \notin WriteOps) /\
        (\E p \in Procs : journal.calls[p].op = "update"))
          => \E p \in Procs :
                 /\ journal.calls[p].op = "update"
                 /\ MemGet(mem, SeedId) = [note |-> journal.calls[p].note, err |-> ErrNil]

\* two goroutines have updated with different notes and all have returned
C11_Witness ==
    /\ \A p \in Procs : procs[p].pc = "idle"
    /\ \E p, q \in Procs :
          /\ Reported(p, "update") /\ Reported(q, "update")
          /\ journal.calls[p].note # journal.calls[q].note
          /\ mem[SeedId] = journal.calls[q].note

\* C12: creates of pairwise distinct ids that run together all succeed and
\* the list then holds each of them and every note that was there before;
\* deletes of distinct existing ids that run together all succeed and none
\* of the ids is there afterwards.
C12_IndependentIds ==
    /\ \A p \in Procs : journal.calls[p].err = ErrNil
    /\ \A p \in Procs :
          Reported(p, "create") => journal.calls[p].note \in MemGetAll(mem).notes
    /\ \A p \in Procs :
          Reported(p, "delete") => \A n \in MemGetAll(mem).notes : n.ID # IdOf(p)
    /\ SeedNote \in MemGetAll(mem).notes

\* two deletes of created notes have returned while the third created note
\* and the earlier note stay
C12_Witness ==
    /\ Reported("w1", "delete") /\ Reported("w2", "delete") /\ Reported("w3", "create")
    /\ {n.ID : n \in MemGetAll(mem).notes} = {SeedId, DesignId}

\* errors.Is(err, context.Canceled) or errors.Is(err, context.DeadlineExceeded)
IsCancelled(err) == err # ErrNil /\ <<err[Len(err)]>> \in CtxErrs

\* C13: in every adapter a create, get, list, update or delete whose
\* context is done returns a Cancelled or DeadlineExceeded error and does
\* not complete as a success.
C13_CancellationHonoured ==
    last.via = "done context" => \A b \in active : IsCancelled(last.err[b])

\* C14: a Close after a first Close returns no error in every adapter, and
\* so does a Close of the in-memory adapter and of the adapter an App got
\* when its configured store could not be reached.
C14_IdempotentClose == app.closes >= 1 => app.closeErr = ErrNil

\* Initialize has returned
Initialized == app.pc \in {"ready", "samples", "failed", "waiting", "closing", "stopped"}

\* C15: for every storage type and every outcome of the connection attempt
\* initializeStorage returns a storage and a nil error; when CouchDB or
\* MongoDB could not be reached the storage is a fresh in-memory adapter, on
\* which a create followed by a get works.
C15_StartupFallback ==
    /\ Initialized =>
          /\ Cardinality(active) = 1
          /\ app.initErr = ErrNil
          /\ app.connErr # ErrNil => active = {"memory"}
          /\ app.connErr = ErrNil =>
                active = {IF app.StorageType \in {"couchdb", "mongodb"}
                          THEN app.StorageType ELSE "memory"}
    /\ (app.pc = "ready" /\ app.connErr # ErrNil) => mem = EmptyMap
    /\ (app.connErr # ErrNil /\ last.op = "get" /\ status["memory"][last.id] = "created")
          => last.err["memory"] = ErrNil

\* CouchDB was given up after the last attempt, and on the in-memory storage
\* a note was created and read
C15_Witness ==
    /\ app.StorageType = "couchdb"
    /\ Len(app.tries) = maxAttempts
    /\ app.connErr # ErrNil
    /\ active = {"memory"}
    /\ last.op = "get" /\ last.err["memory"] = ErrNil /\ NoteIdA \in DOMAIN mem

\* the status the handlers are to answer with for an error of the storage
ExpectedStatus(err) ==
    IF err = ErrNoteNotFound THEN 404
    ELSE IF AlreadyExists(err) THEN 400
    ELSE 500

\* C16: REST status mapping. A request to create, get, update or delete a
\* note is answered with 400 when it fails validation (malformed body,
\* invalid id), with 404 when the storage call returns not-found, with 400
\* when it returns already-exists, and with 500 for any other storage error.
C16_RestStatusMapping ==
    (last.via = "rest" /\ last.route # RouteGetAll) =>
        \A b \in active :
            IF last.op = "rejected" THEN last.code[b] = 400
            ELSE IF last.err[b] = ErrNil THEN last.code[b] \in {200, 201, 204}
            ELSE last.code[b] = ExpectedStatus(last.err[b])

C18_StoredIdsValid ==
    (last.via = "rest" /\ last.op \in {"create", "get", "update", "delete"})
        => isValidNoteID(last.id)

WriteStep(p) == procs[p].pc = "write" /\ procs'[p].pc # "write"

\* the revision worker p read is no longer the stored one
Overtaken(p) ==
    IF procs[p].id \in DOMAIN couch
    THEN couch[procs[p].id].Rev # procs[p].rev
    ELSE TRUE

C23_NoResurrection ==
    /\ [][couch[NoteIdA].Deleted => couch'[NoteIdA].Deleted]_vars
    /\ [](\A p \in CouchWorkers :
            (procs[p].op = "delete" /\ procs[p].pc = "done" /\ procs[p].err = ErrNil)
                => couch[NoteIdA].Deleted)
    /\ [](\A p \in CouchWorkers :
            (procs[p].op = "update" /\ procs[p].pc = "done" /\ couch[NoteIdA].Deleted)
                => /\ procs[p].err \in {ErrNil, ErrNoteNotFound,
                                        Wrap("failed to update note", KivikConflict)}
                   /\ procs[p].err # ErrNil => ~procs[p].applied)

\* what Get of the adapter returns for the id once the step is made
NoteAfter(b, id) ==
    IF b = "memory" THEN MemGet(mem', id).note
    ELSE IF b = "couchdb" THEN CouchGet(couch', id).note
    ELSE MongoGet(mongo', id).note

\* C24: timestamps across updates. Every successful update of a note,
\* through the storage or the REST PUT handler, leaves the stored CreatedAt
\* as it was and stores an UpdatedAt not earlier than the one stored before.
C24_TimestampsAcrossUpdates ==
    [][\A b \in active :
         IF last'.op = "update"
         THEN IF last'.err[b] = ErrNil
              THEN /\ NoteAfter(b, last'.id).CreatedAt = DoGet(b, last'.id).note.CreatedAt
                   /\ NoteAfter(b, last'.id).UpdatedAt >= DoGet(b, last'.id).note.UpdatedAt
              ELSE TRUE
         ELSE TRUE]_vars

\* C25: the revision token stays private to the CouchDB adapter. A note
\* returned by get or list carries no revision token.
C25_RevisionPrivate ==
    IF "couchdb" \in active
    THEN /\ (last.op = "get" /\ last.err["couchdb"] = ErrNil)
                => CouchGet(couch, last.id).note.Rev = 0
         /\ (last.op = "getall" /\ last.err["couchdb"] = ErrNil)
                => \A n \in CouchGetAll(couch).notes : n.Rev = 0
    ELSE TRUE

\* the ids of the documents stored and not deleted
LiveIds == {id \in DOMAIN couch : ~couch[id].Deleted}

\* C26: reserved-prefix filtering. The CouchDB adapter's list returns a
\* stored document if and only if its id does not start with "_": a design
\* document is never returned, every other stored note is.
C26_ReservedPrefixFiltering ==
    IF "couchdb" \in active
    THEN /\ CouchGetAll(couch).err = ErrNil
         /\ {n.ID : n \in CouchGetAll(couch).notes}
                = {id \in LiveIds : ~HasPrefix(id, Underscore)}
         /\ \A n \in CouchGetAll(couch).notes : n = ScanDoc(couch, n.ID)
    ELSE TRUE

\* a list was made of a database that holds a design document and two notes
C26_Witness ==
    /\ active = {"couchdb"} /\ last.op = "getall"
    /\ LiveIds = {DesignId, NoteIdA, NoteIdB}
    /\ {n.ID : n \in CouchGetAll(couch).notes} = {NoteIdA, NoteIdB}

\* Run has returned
RunReturned == app.pc \in {"stopped", "failed"}

\* C28: Run starts the servers, then creates the sample notes, then waits:
\* it returns only after its context is done, after these three steps in
\* this order, and what it returns is the error of the context, also when
\* the context was done before the sample notes were created.
C28_RunLifecycle ==
    RunReturned =>
        /\ app.ctx \in CtxErrs
        /\ app.steps = <<"startServers", "createSampleNotes", "waitForShutdown">>
        /\ app.ret = app.ctx

\* the notes the App's storage lists
StoredNotes == DoGetAll(TheStorage).notes

\* a turn of the loop of createSampleNotes was taken
SampleTurn ==
    /\ app.pc = "samples"
    /\ app'.samples = app.samples + 1 \/ app'.pc = "failed"

\* the storage refused the Create because the id is taken
IdTaken(err) ==
    /\ err # ErrNil
    /\ err[Len(err)] \in {"E11000 duplicate key error", "Conflict: Document update conflict."}

\* C29: createSampleNotes on an empty store that nothing else writes leaves
\* exactly three notes, titled 'Welcome to Notes API', 'How to use the API'
\* and 'REST API Endpoints'. A Create that fails because the id is taken is
\* skipped and the loop goes on with the next note; any other failure of
\* Create ends the loop and is returned, wrapped.
C29_SampleNotes ==
    /\ []((app.samples = Len(SampleNotes) /\ app.grpc = 0) =>
            /\ Cardinality(StoredNotes) = 3
            /\ {n.Title : n \in StoredNotes}
                 = {"Welcome to Notes API", "How to use the API", "REST API Endpoints"}
            /\ \A n \in StoredNotes : \E i \in 1..3 :
                 /\ n.Title = SampleNotes[i].title
                 /\ n.Content = SampleNotes[i].content)
    /\ [][IF SampleTurn
          THEN LET err == last'.err[TheStorage]
               IN  IF err = ErrNil
                   THEN /\ app'.samples = app.samples + 1
                        /\ app'.pc # "failed"
                        /\ last'.note.Title = SampleNotes[app.samples + 1].title
                        /\ \E n \in StoredNotes' :
                             /\ n.ID = last'.note.ID
                             /\ n.Title = last'.note.Title
                             /\ n.Content = SampleNotes[app.samples + 1].content
                   ELSE IF IdTaken(err)
                   THEN /\ app'.samples = app.samples + 1
                        /\ app'.skipped = app.skipped + 1
                        /\ app'.pc = IF app'.samples < 3 THEN "samples" ELSE "waiting"
                        /\ app'.ret = ErrNil
                        /\ <<mem, couch, mongo>>' = <<mem, couch, mongo>>
                   ELSE /\ app'.pc = "failed"
                        /\ app'.samples = app.samples
                        /\ app'.ret = Wrap("failed to create sample notes",
                                           Wrap("failed to create sample note", err))
                        /\ <<mem, couch, mongo>>' = <<mem, couch, mongo>>
          ELSE TRUE]_vars

\* the second sample note was skipped because CouchDB held a note under its
\* id, and the third one was created
C29_Witness ==
    /\ active = {"couchdb"}
    /\ app.samples = 3 /\ app.skipped = 1 /\ app.pc = "waiting"
    /\ {n.Title : n \in StoredNotes} = {"Welcome to Notes API", "T", "REST API Endpoints"}

\* the step leaves what the adapter stores for the id as it was
SameRecord(b, id) ==
    IF id \in DOMAIN StoreOf(b)
    THEN IF id \in DOMAIN StoreOf(b)' THEN StoreOf(b)'[id] = StoreOf(b)[id] ELSE FALSE
    ELSE id \notin DOMAIN StoreOf(b)'

\* every id the adapter has stored anything for, before or after the step
Stored(b) == DOMAIN StoreOf(b) \cup DOMAIN StoreOf(b)'

\* a PUT that reached the adapter wrote the record of the id of its path
\* only, and answered 404 without a write when the id had no record
PutOnPathId(b) ==
    /\ \A o \in Stored(b) \ {last'.id} : SameRecord(b, o)
    /\ IF HasRecord(b, last'.id)
       THEN last'.code[b] = 200 =>
               /\ NoteAfter(b, last'.id).ID = last'.id
               /\ NoteAfter(b, last'.id).Title = last'.note.Title
               /\ NoteAfter(b, last'.id).Content = last'.note.Content
       ELSE /\ last'.code[b] = 404
            /\ \A o \in Stored(b) : SameRecord(b, o)

\* C31: PUT /api/notes/{id} updates the record of the id of the path,
\* whatever id its body carries, leaves every other record as it was, and
\* answers 404 and stores nothing when the id of the path has no record.
C31_PutTargetsPathId ==
    [][\A b \in active :
        IF last'.via = "rest" /\ last'.op = "update"
        THEN PutOnPathId(b)
        ELSE TRUE]_vars

\* the same of the in-memory and the MongoDB adapter alone
C31_PutTargetsPathIdMemMongo ==
    [][\A b \in active \ {"couchdb"} :
        IF last'.via = "rest" /\ last'.op = "update"
        THEN PutOnPathId(b)
        ELSE TRUE]_vars

\* C32: isDuplicateKeyError is false for nil, true for the messages of the
\* three backends for a create on an id that is taken, and false for the
\* error of every other failure: it is true of the error of a call exactly
\* when the call is a create that failed on an id that has a record.
C32_DuplicateKeyClassification ==
    /\ [](/\ ~isDuplicateKeyError(ErrNil)
          /\ isDuplicateKeyError(<<"E11000 duplicate key error">>)
          /\ isDuplicateKeyError(<<"conflict">>)
          /\ isDuplicateKeyError(<<"Document update conflict">>)
          /\ isDuplicateKeyError(<<"note already exists">>)
          /\ ~isDuplicateKeyError(<<"some other error">>))
    /\ [][\A b \in active :
            IF last'.err[b] = ErrNil
            THEN ~isDuplicateKeyError(last'.err[b])
            ELSE isDuplicateKeyError(last'.err[b])
                    <=> (last'.op = "create" /\ HasRecord(b, last'.id))]_vars

\* the messages of the test of isDuplicateKeyError alone
C32_TestMessages ==
    /\ ~isDuplicateKeyError(ErrNil)
    /\ isDuplicateKeyError(<<"E11000 duplicate key error">>)
    /\ isDuplicateKeyError(<<"conflict">>)
    /\ isDuplicateKeyError(<<"Document update conflict">>)
    /\ isDuplicateKeyError(<<"note already exists">>)
    /\ ~isDuplicateKeyError(<<"some other error">>)

\* C33: a Delete of the CouchDB adapter that returns an error has not
\* removed the document of its id, also when another caller creates the id
\* between the delete and the verification read.
C33_FailedDeleteChangesNothing ==
    \A p \in CouchWorkers :
        (procs[p].op = "delete" /\ procs[p].pc = "done" /\ procs[p].err # ErrNil)
            => ~procs[p].applied

\* the same of the Deletes that fail at their read or at their write
C33_FailedBeforeVerification ==
    \A p \in CouchWorkers :
        (procs[p].op = "delete" /\ procs[p].pc = "done"
            /\ procs[p].err \in {ErrNoteNotFound, Wrap("failed to delete note", KivikConflict)})
            => ~procs[p].applied

\* C34: the id of every note that gRPC CreateNote or createSampleNotes has
\* stored (an id made by NewNote) is accepted by isValidNoteID, so that
\* ValidateNoteIDMiddleware lets a GET, PUT or DELETE of it through.
C34_GeneratedIdsAddressable ==
    \A b \in active :
        (last.via \in {"grpc", "samples"} /\ last.op = "create" /\ last.err[b] = ErrNil)
            => /\ isValidNoteID(last.id)
               /\ ValidateNoteIDMiddleware(last.id) = 0

\* a create, update or delete of the id has just returned success
WriteReturned(id) ==
    /\ ~heap'.wrote
    /\ last'.op \in {"create", "update", "delete"}
    /\ last'.id = id
    /\ last'.err["memory"] = ErrNil

\* C35: in the in-memory adapter what get(id) returns changes only by a
\* create, update or delete of the id that succeeds: a caller's store to a
\* field of a note it handed to create, or of a note get returned to it,
\* changes nothing that a later get returns.
C35_ContentChangesOnlyThroughWrites ==
    [][\A id \in Ids :
        IF MemGet(mem', id) # MemGet(mem, id) THEN WriteReturned(id) ELSE TRUE]_vars

\* the entries of the map are the notes of the objects they point to
C35_MapPointsToObjects == mem = Deref(heap.val, heap.at)

\* the goroutines whose delete has returned, and those it returned nil to
DeleteReturned == {p \in Procs : journal.calls[p].op = "delete"}
DeleteWinners == {p \in DeleteReturned : journal.calls[p].err = ErrNil}

\* C36: of the deletes of one stored id that run concurrently on the
\* in-memory or the MongoDB adapter exactly one returns success and every
\* other returns NotFound, and the id has no record afterwards.
C36_OneDeleteWins ==
    /\ Cardinality(DeleteWinners) <= 1
    /\ \A p \in DeleteReturned \ DeleteWinners : journal.calls[p].err = ErrNoteNotFound
    /\ DeleteReturned # {} => ~HasRecord(CHOOSE b \in active : TRUE, SeedId)
    /\ DeleteReturned = Procs => Cardinality(DeleteWinners) = 1

\* the deletes of all three goroutines have returned, on the in-memory
\* adapter, the second one to start being the one that succeeded
C36_Witness ==
    /\ active = {"memory"}
    /\ DeleteReturned = Procs
    /\ DeleteWinners = {"w2"}

\* the same on MongoDB
C36_WitnessMongo ==
    /\ active = {"mongodb"}
    /\ DeleteReturned = Procs
    /\ DeleteWinners = {"w3"}

\* C37: frame of each operation. In every adapter a create, update or
\* delete leaves the records of all other ids as they were, a get or a list
\* changes nothing that is stored, and a call that returns NotFound changes
\* nothing.
C37_OperationFrame ==
    [][\A b \in active :
        /\ IF last'.via = "storage" /\ last'.op \in {"create", "update", "delete"}
           THEN \A o \in Stored(b) \ {last'.id} : SameRecord(b, o)
           ELSE TRUE
        /\ IF last'.via = "storage" /\ last'.op \in {"get", "getall"}
           THEN StoreOf(b)' = StoreOf(b)
           ELSE TRUE
        /\ IF last'.via = "storage" /\ last'.err[b] = ErrNoteNotFound
           THEN StoreOf(b)' = StoreOf(b)
           ELSE TRUE]_vars

\* an update of an id without a record returned NotFound on MongoDB, the
\* records of two other ids stored
C37_Witness ==
    /\ "mongodb" \in active
    /\ last.op = "update" /\ last.id = NoteIdA /\ last.err["mongodb"] = ErrNoteNotFound
    /\ DOMAIN mongo = {NoteIdB, DesignId}

\* a delete on CouchDB removed the record of its id and left the other
C37_WitnessDelete ==
    /\ "couchdb" \in active
    /\ last.op = "delete" /\ last.id = NoteIdA /\ last.err["couchdb"] = ErrNil
    /\ LiveIds = {NoteIdB}

\* C38: the Rev of the note handed to the CouchDB adapter's Update has no
\* influence: two calls that differ in it only have the same outcome and
\* leave the same document, as a whole call and at each of its two round
\* trips, whatever revision the read of the call has returned.
C38_CallerRevisionIgnored ==
    \A id \in Ids, r \in CallerRevs :
        LET n0 == Note(id, 0, "T2", "C2", 1, 1)
            n1 == Note(id, r, "T2", "C2", 1, 1)
        IN  /\ CouchUpdate(couch, n1) = CouchUpdate(couch, n0)
            /\ CouchUpdateRead(couch, n1) = CouchUpdateRead(couch, n0)
            /\ \A rev \in CallerRevs :
                    CouchUpdateWrite(couch, n1, rev) = CouchUpdateWrite(couch, n0, rev)

\* an Update with a note that carries the first revision has succeeded on a
\* document that was at its second revision
C38_Witness ==
    /\ active = {"couchdb"}
    /\ last.op = "update" /\ last.err["couchdb"] = ErrNil /\ last.note.Rev = 1
    /\ NoteIdA \in LiveIds
    /\ couch[NoteIdA].Rev = 3
    /\ couch[NoteIdA].Doc.Title = "T2"

\* C30: every POST /api/notes that is answered 201 has stored its note
\* under a non-empty id, and has raised the number of notes that
\* GET /api/notes lists by one.
C30_PostGeneratesId ==
    [][\A b \in active :
        IF last'.op = "create" /\ last'.via = "rest" /\ last'.code[b] = 201
        THEN /\ last'.id # <<>>
             /\ Cardinality(DoGetAll(b).notes') = Cardinality(DoGetAll(b).notes) + 1
        ELSE TRUE]_vars

\* C27: once waitForShutdown has called the storage's Close, neither a REST
\* handler nor a gRPC method nor the creation of the sample notes makes a
\* call of the storage, also when Shutdown returned the error of its
\* timeout with a request in flight.
C27_NoStorageUseAfterClose ==
    /\ app.late = {}
    /\ app.pc = "stopped" => app.inflight = 0

\* the REST handler alone never calls the storage after its Close
C27_RestQuietAfterClose == "rest" \notin app.late

ShutdownCalls == [i \in 1..Len(app.calls) |-> app.calls[i][1]]

\* C19: waitForShutdown does nothing while the context is live; once it is
\* done it calls the REST server's Shutdown, then the storage's Close, each
\* once, returns the error of the context whatever Shutdown and Close
\* report, and it does return.
C19_ShutdownOrdering ==
    /\ [](app.ctx = ErrNil => (app.calls = <<>> /\ app.pc \notin {"closing", "stopped"}))
    /\ [](app.pc = "closing" => ShutdownCalls = <<"Shutdown">>)
    /\ [](app.pc = "stopped" =>
            /\ ShutdownCalls = <<"Shutdown", "Close">>
            /\ app.ret = app.ctx /\ app.ret \in CtxErrs)
    /\ (app.pc = "waiting" /\ app.ctx # ErrNil) ~> (app.pc = "stopped")

\* Shutdown and Close both reported an error and the error of the context
\* was returned
C19_Witness ==
    /\ app.pc = "stopped"
    /\ app.calls[1][2] # ErrNil /\ app.calls[2][2] # ErrNil
    /\ app.ret = CtxCanceled

\* the attempts made so far that failed
FailedTries == {i \in 1..Len(app.tries) : ~app.tries[i]}

\* C20: NewCouchDBStorage makes at most 10 connection attempts with a wait
\* after each failed one, makes no attempt after one that succeeded, returns
\* an error and no storage when all have failed, and leaves its loop.
C20_BoundedRetry ==
    /\ [](/\ Len(app.tries) <= maxAttempts
          /\ \A i \in 1..Len(app.tries) : app.tries[i] => i = Len(app.tries)
          /\ app.sleeps = Cardinality(FailedTries)
          /\ (app.tries # <<>> /\ app.tries[Len(app.tries)]) => app.pc # "connecting"
          /\ (Initialized /\ Cardinality(FailedTries) = maxAttempts) =>
                /\ app.connErr = Wrap("failed to connect to CouchDB after retries",
                                      ConnRefused)
                /\ "couchdb" \notin active)
    /\ (app.StorageType = "couchdb" /\ app.pc = "new") ~> (app.pc \notin {"new", "connecting"})

\* the tenth attempt succeeded after nine failed ones
C20_Witness ==
    /\ Len(app.tries) = maxAttempts
    /\ app.tries[maxAttempts]
    /\ app.sleeps = maxAttempts - 1
    /\ active = {"couchdb"}

====
